---- MODULE Spec2Model ----
(***************************************************************************)
(* glosco: connection tracker (src/src/observe.rs), wire codec             *)
(* (src/src/coding.rs) and fan-out transport client (src/src/sync.rs).     *)
(*                                                                         *)
(* The specifications share the module's variables:                        *)
(*   SpecTracker   Observer::next / handle_ether and the table `states`,   *)
(*                 on TCP and ICMP frames                                  *)
(*   SpecDatagram  the same on UDP, DNS, ICMP and ignored frames           *)
(*   SpecCodec     Coder::encode / Coder::decode on Message values         *)
(*   SpecSync      ClientConfig::build, Client::send_frame, client_thread  *)
(*                 with one remote                                         *)
(*   SpecRemotes   the same with two remotes                               *)
(* Each leaves the variables of the other parts at their initial values.   *)
(***************************************************************************)
EXTENDS Integers, Sequences, FiniteSets, TLC

VARIABLES
    states,     \* Observer.states: HashMap<Connection, Message>
    clock,      \* the last value SystemTime::now() returned to the tracker
    log,        \* history: one record per Ingress received by Observer::next
    cmsg,       \* codec: the Message value handed to encode
    cwire,      \* codec: the bytes on the wire
    cres,       \* codec: the phase and the result of decode
    now,        \* transport: Instant::now(), in seconds
    closed,     \* transport: the Client (every Sender) has been dropped
    sent,       \* transport: number of frames handed to send_frame so far
    queue,      \* transport: per worker, the mpsc channel's content
    wpc,        \* transport: per worker, its position in client_thread
    tries,      \* transport: per worker, the local `tries`
    start,      \* transport: per worker, the local `start`
    hand,       \* transport: per worker, the frame recv() returned (0: none)
    conn,       \* transport: per worker, what was written on its current socket
    written,    \* history: per worker, the message frames written, all sockets
    attempts,   \* history: per worker, the connect attempts since `tries` was last 0:
                \*   how many, when the first started and when the latest started
    drained,    \* history: per worker, recv() has failed on the closed, empty channel
    stream,     \* server: what the client socket delivers, frame by frame
    nread,      \* server: number of frames client_thread has taken off the socket
    ident,      \* server: the local `ident`
    rows,       \* server: the rows inserted into table `state`, each with the
                \*   position of its frame in the stream
    spc,        \* server: position of client_thread
    packets,    \* capture: the mpsc channel from the capture threads to the Observer
    held,       \* capture: per interface, the packet next_packet() returned that
                \*   its thread has not sent yet
    captured,   \* history: every packet next_packet() returned, in capture order
    alive,      \* capture: the interfaces whose capture thread still runs (each
                \*   holds a clone of the channel's Sender)
    returned    \* history: what Observer::next has returned, call by call

trackerVars == <<states, clock, log>>
codecVars == <<cmsg, cwire, cres>>
syncVars ==
    <<now, closed, sent, queue, wpc, tries, start, hand, conn, written, attempts, drained>>
serverVars == <<stream, nread, ident, rows, spc>>
captureVars == <<packets, held, captured, alive, returned>>
vars == <<states, clock, log, cmsg, cwire, cres,
          now, closed, sent, queue, wpc, tries, start, hand, conn, written, attempts, drained,
          stream, nread, ident, rows, spc, packets, held, captured, alive, returned>>

(***************************************************************************)
(* Bounds of the model.                                                    *)
(***************************************************************************)
MaxPackets == 3
MaxFrames == 3
MaxTime == 10
MaxTries == 7
MaxDown == 20
MaxStreak == 8
MaxWire == 80
MaxStream == 2
MaxIdent == 3
MaxVec == 257

(***************************************************************************)
(* Data model (src/src/observe.rs).                                        *)
(***************************************************************************)
V4(a, b, c, d) == [v |-> 4, octets |-> <<a, b, c, d>>]

Endpoint(addr, port) == [addr |-> addr, port |-> port]

Connection(interface, src, dst, protocol) ==
    [interface |-> interface, src |-> src, dst |-> dst, protocol |-> protocol]

State(as_of, connection) == [as_of |-> as_of, connection |-> connection]

Problem(kind, code) == [kind |-> kind, code |-> code]

Active(state) == [tag |-> "Active", state |-> state]

Ended(state, how) == [tag |-> "Ended", state |-> state, closed |-> how]

Failed(state, problem) == [tag |-> "Failed", state |-> state, problem |-> problem]

NameMsg(state, names) == [tag |-> "Name", state |-> state, names |-> names]

Name(name, address) == [name |-> name, address |-> address]

None == [some |-> FALSE]

Some(x) == [some |-> TRUE, val |-> x]

(***************************************************************************)
(* Time.  SystemTime and Duration are (seconds, nanoseconds) pairs.        *)
(***************************************************************************)
Time(secs, nanos) == [secs |-> secs, nanos |-> nanos]

TimeLe(a, b) == a.secs < b.secs \/ (a.secs = b.secs /\ a.nanos <= b.nanos)

TimeLt(a, b) == a.secs < b.secs \/ (a.secs = b.secs /\ a.nanos < b.nanos)

KEEPALIVE_SECS == 30

\* SystemTime::duration_since: Err when `earlier` is later than `later`.
DurationSince(later, earlier) ==
    IF TimeLt(later, earlier) THEN [ok |-> FALSE]
    ELSE IF later.nanos >= earlier.nanos
         THEN [ok |-> TRUE,
               d |-> Time(later.secs - earlier.secs, later.nanos - earlier.nanos)]
         ELSE [ok |-> TRUE,
               d |-> Time(later.secs - earlier.secs - 1,
                          later.nanos + 1000000000 - earlier.nanos)]

\* The comparison of connection_open reversed: fresh entries count as stale.
StaleReversed(t, as_of) ==
    LET r == DurationSince(t, as_of)
    IN  r.ok /\ TimeLt(r.d, Time(KEEPALIVE_SECS, 0))

\* d > Duration::from_secs(KEEPALIVE_SECS), false when duration_since failed.
Stale(t, as_of) ==
    LET r == DurationSince(t, as_of)
    IN  r.ok /\ TimeLt(Time(KEEPALIVE_SECS, 0), r.d)

(***************************************************************************)
(* Captured frames.  Ingress.data is kept as what the parsers of pktparse  *)
(* and dns_parser read from it: a frame is the Ethernet header's ethertype *)
(* and the IP header's addresses and protocol, followed by a segment; a    *)
(* segment is a run of `len` bytes of which the model keeps the first two  *)
(* big-endian 16-bit words (w0, w1), the TCP flag bits and what follows    *)
(* the first 8 bytes (`body`: a DNS payload, or the bytes an ICMP error    *)
(* quotes).                                                                *)
(***************************************************************************)
Segment(len, w0, w1, rst, fin, body) ==
    [len |-> len, w0 |-> w0, w1 |-> w1, rst |-> rst, fin |-> fin, body |-> body]

NoBody == [kind |-> "none"]

\* The bytes of a body, read again as a segment.
BytesOf(body) ==
    IF body.kind = "segment" THEN body.seg
    ELSE [len |-> 0, w0 |-> 0, w1 |-> 0, rst |-> FALSE, fin |-> FALSE, body |-> NoBody]

\* pktparse::udp::parse_udp_header: four 16-bit words, 8 bytes.
ParseUdpHeader(seg) ==
    IF seg.len >= 8
    THEN [ok |-> TRUE, source_port |-> seg.w0, dest_port |-> seg.w1, rest |-> seg.body]
    ELSE [ok |-> FALSE]

\* pktparse::tcp::parse_tcp_header: a 20-byte header.
ParseTcpHeader(seg) ==
    IF seg.len >= 20
    THEN [ok |-> TRUE, source_port |-> seg.w0, dest_port |-> seg.w1,
          flag_rst |-> seg.rst, flag_fin |-> seg.fin]
    ELSE [ok |-> FALSE]

\* pktparse::icmp::parse_icmp_header: the first word is (type, code); 8 bytes.
ParseIcmpHeader(seg) ==
    IF seg.len >= 8
    THEN [ok |-> TRUE, type |-> seg.w0 \div 256, code |-> seg.w0 % 256, rest |-> seg.body]
    ELSE [ok |-> FALSE]

\* dns_parser::Packet::parse.
ParseDns(body) ==
    IF body.kind = "dns"
    THEN [ok |-> TRUE, questions |-> body.questions, answers |-> body.answers]
    ELSE [ok |-> FALSE]

Ingress(interface, link, ethertype, src, dst, protocol, seg) ==
    [interface |-> interface, link |-> link, ethertype |-> ethertype,
     src |-> src, dst |-> dst, protocol |-> protocol, seg |-> seg]

HostPair(src, dst) == [src |-> src, dst |-> dst]

(***************************************************************************)
(* impl From<IcmpCode> for Problem, composed with pktparse's reading of    *)
(* the (type, code) word into an IcmpCode.                                 *)
(***************************************************************************)
ProblemOf(type, code) ==
    CASE type = 0 -> Problem(0, 0)
      [] type \in {1, 2, 7} -> Problem(1, 0)
      [] type = 3 /\ code <= 15 -> Problem(3, code)
      [] type = 4 -> Problem(4, 0)
      [] type = 5 /\ code <= 3 -> Problem(5, code)
      [] type = 8 -> Problem(8, 0)
      [] type = 9 -> Problem(9, 0)
      [] type = 10 -> Problem(10, 0)
      [] type = 11 /\ code <= 1 -> Problem(11, code)
      [] type = 12 /\ code <= 2 -> Problem(12, code)
      [] type = 13 -> Problem(12, 0)
      [] type = 14 -> Problem(13, 0)
      [] type = 42 -> Problem(42, 0)
      [] type = 43 /\ code <= 4 -> Problem(43, code)
      [] OTHER -> Problem(type, code)

(***************************************************************************)
(* The tracker table and the handlers of Observer.  A handler takes the    *)
(* table and the values its calls of SystemTime::now() return, in order    *)
(* (r[1], r[2]), and yields the new table, the messages it returns and     *)
(* how many of the clock values it read.                                   *)
(***************************************************************************)
NoStates == [c \in {} |-> None]

\* A table that holds one flow at a time.
InsertAlone(st, c, m) == [k \in {c} |-> m]

\* A table that keeps the first entry of a Connection.
InsertOnce(st, c, m) == [k \in DOMAIN st \cup {c} |-> IF k \in DOMAIN st THEN st[k] ELSE m]

Insert(st, c, m) == [k \in DOMAIN st \cup {c} |-> IF k = c THEN m ELSE st[k]]

Result(st, out, used) == [states |-> st, out |-> out, used |-> used]

Nothing(st) == Result(st, <<>>, 0)

\* A connection_closed that does not repeat the Ended of a flow that has ended.
connection_closed_once(st, c, how, r) ==
    IF c \in DOMAIN st /\ st[c].tag = "Ended"
    THEN Result(st, <<>>, 1)
    ELSE LET message == Ended(State(r[1], c), how)
         IN  Result(Insert(st, c, message), <<message>>, 1)

\* A connection_closed that reports every end as a timeout.
connection_closed_timed_out(st, c, how, r) ==
    LET message == Ended(State(r[1], c), "TimedOut")
    IN  Result(Insert(st, c, message), <<message>>, 1)

connection_closed(st, c, how, r) ==
    LET message == Ended(State(r[1], c), how)
    IN  Result(Insert(st, c, message), <<message>>, 1)

connection_unavail(st, c, problem, r) ==
    LET message == Failed(State(r[1], c), problem)
    IN  Result(Insert(st, c, message), <<message>>, 1)

\* A connection_open that rate-limits over every entry, Ended and Failed too.
connection_open_gated(st, c, r) ==
    IF c \in DOMAIN st
    THEN IF Stale(r[1], st[c].state.as_of)
         THEN LET message == Active(State(r[2], c))
              IN  Result(Insert(st, c, message), <<message>>, 2)
         ELSE Result(st, <<>>, 1)
    ELSE LET message == Active(State(r[1], c))
         IN  Result(Insert(st, c, message), <<message>>, 1)

connection_open(st, c, r) ==
    IF c \in DOMAIN st /\ st[c].tag = "Active"
    THEN IF Stale(r[1], st[c].state.as_of)
         THEN LET message == Active(State(r[2], c))
              IN  Result(Insert(st, c, message), <<message>>, 2)
         ELSE Result(st, <<>>, 1)
    ELSE LET message == Active(State(r[1], c))
         IN  Result(Insert(st, c, message), <<message>>, 1)

\* A send_names that emits the Name alone.
send_names_only(st, c, names, r) == Result(st, <<NameMsg(State(r[2], c), names)>>, 2)

send_names(st, c, names, r) ==
    LET res == connection_closed(st, c, "Connectionless", r)
    IN  Result(res.states, Append(res.out, NameMsg(State(r[2], c), names)), 2)

\* impl From<dns_parser::Question> for Name
NameOfQuestion(q) == Name(q, None)

\* impl From<dns_parser::ResourceRecord> for Name
NameOfRecord(rr) ==
    Name(rr.name,
         CASE rr.type = "A" -> Some([tag |-> "Address", addr |-> rr.data])
           [] rr.type = "AAAA" -> Some([tag |-> "Address", addr |-> rr.data])
           [] rr.type = "CNAME" -> Some([tag |-> "Alias", alias |-> rr.data])
           [] rr.type = "MX" -> Some([tag |-> "Service", name |-> rr.data, port |-> None])
           [] rr.type = "SRV" -> Some([tag |-> "Service", name |-> rr.data.target,
                                       port |-> Some(rr.data.port)])
           [] rr.type = "TXT" -> Some([tag |-> "Text", texts |-> rr.data])
           [] OTHER -> None)

handle_dns(st, body, c, r) ==
    LET dns == ParseDns(body)
    IN  IF dns.ok
        THEN IF dns.questions = <<>>
             THEN Nothing(st)
             ELSE send_names(st, c,
                     [i \in 1..Len(dns.questions) |-> NameOfQuestion(dns.questions[i])]
                     \o [i \in 1..Len(dns.answers) |-> NameOfRecord(dns.answers[i])], r)
        ELSE Nothing(st)

tcp_connection(interface, pkt, hosts) ==
    Connection(interface, Endpoint(hosts.src, pkt.source_port),
               Endpoint(hosts.dst, pkt.dest_port), "Tcp")

\* handle_tcp with FIN looked at before RST.
handle_tcp_fin_first(st, interface, seg, hosts, r) ==
    LET pkt == ParseTcpHeader(seg)
    IN  IF pkt.ok
        THEN LET c == tcp_connection(interface, pkt, hosts)
             IN  IF pkt.flag_rst \/ pkt.flag_fin
                 THEN connection_closed(st, c, IF pkt.flag_fin THEN "Normally" ELSE "Reset", r)
                 ELSE connection_open(st, c, r)
        ELSE Nothing(st)

handle_tcp(st, interface, seg, hosts, r) ==
    LET pkt == ParseTcpHeader(seg)
    IN  IF pkt.ok
        THEN LET c == tcp_connection(interface, pkt, hosts)
             IN  IF pkt.flag_rst \/ pkt.flag_fin
                 THEN connection_closed(st, c, IF pkt.flag_rst THEN "Reset" ELSE "Normally", r)
                 ELSE connection_open(st, c, r)
        ELSE Nothing(st)

handle_udp(st, interface, seg, hosts, r) ==
    LET pkt == ParseUdpHeader(seg)
    IN  IF pkt.ok
        THEN LET c == Connection(interface, Endpoint(hosts.src, pkt.source_port),
                                 Endpoint(hosts.dst, pkt.dest_port), "Udp")
             IN  IF pkt.dest_port = 53 \/ pkt.source_port = 53
                 THEN handle_dns(st, pkt.rest, c, r)
                 ELSE connection_closed(st, c, "Connectionless", r)
        ELSE Nothing(st)

\* The Connection handle_icmp recovers from the bytes after the ICMP header.
icmp_connection(interface, rest, hosts) ==
    LET asUdp == ParseUdpHeader(rest)
        asTcp == ParseTcpHeader(rest)
    IN  IF asUdp.ok
        THEN Some(Connection(interface, Endpoint(hosts.src, asUdp.source_port),
                             Endpoint(hosts.dst, asUdp.dest_port), "Udp"))
        ELSE IF asTcp.ok
             THEN Some(Connection(interface, Endpoint(hosts.src, asTcp.source_port),
                                  Endpoint(hosts.dst, asTcp.dest_port), "Tcp"))
             ELSE None

handle_icmp(st, interface, seg, hosts, r) ==
    LET pkt == ParseIcmpHeader(seg)
    IN  IF pkt.ok
        THEN LET c == icmp_connection(interface, BytesOf(pkt.rest), hosts)
             IN  IF c.some
                 THEN connection_unavail(st, c.val, ProblemOf(pkt.type, pkt.code), r)
                 ELSE Nothing(st)
        ELSE Nothing(st)

\* pktparse::ethernet::parse_ethernet_frame: fails on a frame shorter than the
\* Ethernet header, which the model writes as ethertype "none".
ParseEthernetFrame(frame) ==
    IF frame.ethertype = "none" THEN [ok |-> FALSE]
    ELSE [ok |-> TRUE, ethertype |-> frame.ethertype]

\* pktparse::ipv4::parse_ipv4_header and ipv6::parse_ipv6_header: fail on a
\* truncated header, which the model writes as protocol "none".
ParseIpHeader(frame) ==
    IF frame.protocol = "none" THEN [ok |-> FALSE]
    ELSE [ok |-> TRUE, source_addr |-> frame.src, dest_addr |-> frame.dst,
          protocol |-> frame.protocol]

handle_ip(st, frame, icmpProtocol, r) ==
    LET pkt == ParseIpHeader(frame)
    IN  IF pkt.ok
        THEN LET pair == HostPair(pkt.source_addr, pkt.dest_addr)
             IN  CASE pkt.protocol = "TCP" ->
                        handle_tcp(st, frame.interface, frame.seg, pair, r)
                   [] pkt.protocol = "UDP" ->
                        handle_udp(st, frame.interface, frame.seg, pair, r)
                   [] pkt.protocol = icmpProtocol ->
                        handle_icmp(st, frame.interface, frame.seg, pair, r)
                   [] OTHER -> Nothing(st)
        ELSE Nothing(st)

\* handle_ether with every ethertype read as IPv4.
handle_ether_any(st, frame, r) == handle_ip(st, frame, "ICMP", r)

handle_ether(st, frame, r) ==
    LET pkt == ParseEthernetFrame(frame)
    IN  IF pkt.ok
        THEN CASE pkt.ethertype = "IPv4" -> handle_ip(st, frame, "ICMP", r)
               [] pkt.ethertype = "IPv6" -> handle_ip(st, frame, "ICMP6", r)
               [] OTHER -> Nothing(st)
        ELSE Nothing(st)

\* One turn of the loop of Observer::next on the Ingress it received.
classify(st, ingress, r) ==
    IF ingress.link = "ETHERNET" THEN handle_ether(st, ingress, r) ELSE Nothing(st)

(***************************************************************************)
(* The frames the capture threads deliver, and the clock values.           *)
(***************************************************************************)
HostA == V4(10, 0, 0, 1)

HostB == V4(10, 0, 0, 2)

TcpFrame(interface, src, sport, dst, dport, rst, fin) ==
    Ingress(interface, "ETHERNET", "IPv4", src, dst, "TCP",
            Segment(20, sport, dport, rst, fin, NoBody))

UdpFrame(interface, src, sport, dst, dport, body) ==
    Ingress(interface, "ETHERNET", "IPv4", src, dst, "UDP",
            Segment(8, sport, dport, FALSE, FALSE, body))

\* What an ICMP error quotes of the datagram it reports (RFC 792): its IPv4
\* header, whose first word is version 4, header length 5, TOS 0 and whose
\* second word is the datagram's total length, and its first 8 bytes.
QuoteOf(frame) ==
    [kind |-> "segment",
     seg |-> Segment(28, 4 * 4096 + 5 * 256, 20 + frame.seg.len, FALSE, FALSE, NoBody)]

IcmpFrame(interface, src, dst, type, code, body) ==
    Ingress(interface, "ETHERNET", "IPv4", src, dst, "ICMP",
            Segment(IF body.kind = "segment" THEN 8 + body.seg.len ELSE 8,
                    type * 256 + code, 0, FALSE, FALSE, body))

DnsBody(questions, answers) ==
    [kind |-> "dns", questions |-> questions, answers |-> answers]

Syn == TcpFrame(0, HostA, 4000, HostB, 80, FALSE, FALSE)

Ack == TcpFrame(0, HostB, 80, HostA, 4000, FALSE, FALSE)

TcpFrames ==
    {Syn, Ack,
     TcpFrame(0, HostA, 4000, HostB, 80, FALSE, TRUE),
     TcpFrame(0, HostB, 80, HostA, 4000, TRUE, FALSE),
     TcpFrame(0, HostA, 4000, HostB, 80, TRUE, TRUE)}

UdpFrames ==
    {UdpFrame(0, HostA, 4000, HostB, 80, NoBody),
     UdpFrame(0, HostA, 4000, HostB, 53,
              DnsBody(<<<<97>>>>, <<[name |-> <<97>>, type |-> "A", data |-> HostB]>>)),
     UdpFrame(0, HostB, 53, HostA, 4000,
              DnsBody(<<<<97>>>>, <<[name |-> <<97>>, type |-> "CNAME", data |-> <<98>>],
                                    [name |-> <<98>>, type |-> "A", data |-> HostB]>>)),
     UdpFrame(0, HostA, 4000, HostB, 53,
              DnsBody(<<>>, <<[name |-> <<97>>, type |-> "A", data |-> HostB]>>)),
     UdpFrame(0, HostA, 4000, HostB, 53, NoBody)}

IcmpFrames ==
    {IcmpFrame(0, HostB, HostA, 3, 3, QuoteOf(Syn)),
     IcmpFrame(0, HostB, HostA, 3, 3, NoBody)}

\* Frames the tracker drops: another link type, an ethertype or IP protocol
\* it does not handle, and headers cut short at each layer.
OtherFrames ==
    {Ingress(0, "IEEE802_11", "IPv4", HostA, HostB, "TCP",
             Segment(20, 4000, 80, FALSE, FALSE, NoBody)),
     Ingress(0, "ETHERNET", "ARP", HostA, HostB, "TCP",
             Segment(20, 4000, 80, FALSE, FALSE, NoBody)),
     Ingress(0, "ETHERNET", "none", HostA, HostB, "TCP",
             Segment(20, 4000, 80, FALSE, FALSE, NoBody)),
     Ingress(0, "ETHERNET", "IPv4", HostA, HostB, "GRE",
             Segment(20, 4000, 80, FALSE, FALSE, NoBody)),
     Ingress(0, "ETHERNET", "IPv4", HostA, HostB, "none",
             Segment(20, 4000, 80, FALSE, FALSE, NoBody)),
     Ingress(0, "ETHERNET", "IPv6", HostA, HostB, "ICMP",
             Segment(36, 3 * 256 + 3, 0, FALSE, FALSE, QuoteOf(Syn))),
     Ingress(0, "ETHERNET", "IPv4", HostA, HostB, "TCP",
             Segment(19, 4000, 80, FALSE, FALSE, NoBody)),
     Ingress(0, "ETHERNET", "IPv4", HostA, HostB, "UDP",
             Segment(7, 4000, 80, FALSE, FALSE, NoBody)),
     Ingress(0, "ETHERNET", "IPv4", HostB, HostA, "ICMP",
             Segment(7, 3 * 256 + 3, 0, FALSE, FALSE, NoBody))}

\* SpecTracker is fed the frames of a TCP flow and the ICMP errors about it,
\* SpecDatagram the UDP, DNS and ICMP frames and the frames that are dropped.
Frames == TcpFrames \cup IcmpFrames

DatagramFrames == UdpFrames \cup IcmpFrames \cup OtherFrames \cup {Syn}

Times == {Time(0, 0), Time(KEEPALIVE_SECS, 0), Time(KEEPALIVE_SECS, 1)}

DatagramTimes == {Time(0, 0), Time(KEEPALIVE_SECS, 1)}

(***************************************************************************)
(* SpecTracker.                                                            *)
(***************************************************************************)
CodecIdle == cmsg = None /\ cwire = <<>> /\ cres = [phase |-> "idle"]

SyncIdle ==
    /\ now = 0 /\ closed = FALSE /\ sent = 0
    /\ queue = <<>> /\ wpc = <<>> /\ tries = <<>> /\ start = <<>>
    /\ hand = <<>> /\ conn = <<>> /\ written = <<>> /\ attempts = <<>>
    /\ drained = <<>>

ServerIdle == stream = <<>> /\ nread = 0 /\ ident = <<>> /\ rows = <<>> /\ spc = "idle"

CaptureIdle ==
    packets = <<>> /\ held = <<>> /\ captured = <<>> /\ alive = {} /\ returned = <<>>

TrackerInit ==
    /\ states = NoStates
    /\ clock = Time(0, 0)
    /\ log = <<>>
    /\ CodecIdle
    /\ SyncIdle
    /\ ServerIdle
    /\ CaptureIdle

\* Observer::next receives one Ingress and classifies it.  r1 and r2 are what
\* SystemTime::now() returns to the handler: any values, since the system clock
\* may be set back between two reads.
Classified(ingress, r1, r2) ==
    /\ Len(log) < MaxPackets
    /\ LET res == classify(states, ingress, <<r1, r2>>)
       IN  /\ res.used = 0 => r1 = clock
           /\ res.used < 2 => r2 = r1
           /\ states' = res.states
           /\ clock' = r2
           /\ log' = Append(log, [ingress |-> ingress,
                                  reads |-> SubSeq(<<r1, r2>>, 1, res.used),
                                  out |-> res.out])
    /\ UNCHANGED <<codecVars, syncVars, serverVars>>

\* The tracker alone: the Ingress is whatever the channel hands over.
Receive(ingress, r1, r2) == Classified(ingress, r1, r2) /\ UNCHANGED captureVars

TrackerNext == \E ingress \in Frames, r1 \in Times, r2 \in Times : Receive(ingress, r1, r2)

SpecTracker == TrackerInit /\ [][TrackerNext]_vars

DatagramNext ==
    \E ingress \in DatagramFrames, r1 \in DatagramTimes, r2 \in DatagramTimes :
        Receive(ingress, r1, r2)

SpecDatagram == TrackerInit /\ [][DatagramNext]_vars

(***************************************************************************)
(* Properties of the tracker.                                              *)
(***************************************************************************)
Entries == 1..Len(log)

IsIp(f) == f.link = "ETHERNET" /\ f.ethertype \in {"IPv4", "IPv6"}

IsTcp(f) == IsIp(f) /\ f.protocol = "TCP" /\ ParseTcpHeader(f.seg).ok

\* A TCP packet with neither RST nor FIN.
IsOpenTcp(f) == IsTcp(f) /\ ~f.seg.rst /\ ~f.seg.fin

\* A TCP packet with RST or FIN.
IsClosingTcp(f) == IsTcp(f) /\ (f.seg.rst \/ f.seg.fin)

\* An ICMP packet from which handle_icmp recovers a flow.
IsIcmpWithFlow(f) ==
    /\ IsIp(f) /\ f.protocol = (IF f.ethertype = "IPv4" THEN "ICMP" ELSE "ICMP6")
    /\ ParseIcmpHeader(f.seg).ok
    /\ icmp_connection(f.interface, BytesOf(ParseIcmpHeader(f.seg).rest),
                       HostPair(f.src, f.dst)).some

\* The Connection a frame is classified under (None: the frame is dropped).
KeyOf(f) ==
    LET res == classify(NoStates, f, <<Time(0, 0), Time(0, 0)>>)
    IN  IF res.out = <<>> THEN None ELSE Some(res.out[1].state.connection)

\* Two Connections of one duplex flow: the same or with the endpoints swapped.
SameFlow(c1, c2) ==
    /\ c1.interface = c2.interface /\ c1.protocol = c2.protocol
    /\ \/ (c1.src = c2.src /\ c1.dst = c2.dst)
       \/ (c1.src = c2.dst /\ c1.dst = c2.src)

\* Frame i is the first frame of Connection c: the table has no entry for c.
FirstOf(c, i) ==
    /\ KeyOf(log[i].ingress) = Some(c)
    /\ \A k \in Entries : k < i => KeyOf(log[k].ingress) # Some(c)

\* Frame j is the next frame of Connection c after frame i.
NextOf(c, i, j) ==
    /\ i < j
    /\ KeyOf(log[i].ingress) = Some(c) /\ KeyOf(log[j].ingress) = Some(c)
    /\ \A k \in Entries : (i < k /\ k < j) => KeyOf(log[k].ingress) # Some(c)

\* b - a as a Duration (b not before a).
Elapsed(a, b) == DurationSince(b, a).d

Window == Time(KEEPALIVE_SECS, 0)

\* b - a < 30 s, b - a = 30 s, b - a > 30 s (b - a is negative when b is before a).
Inside(a, b) == TimeLt(b, a) \/ TimeLt(Elapsed(a, b), Window)

AtWindow(a, b) == TimeLe(a, b) /\ Elapsed(a, b) = Window

PastWindow(a, b) == TimeLe(a, b) /\ TimeLt(Window, Elapsed(a, b))

\* C1: packets of the two directions of one flow are classified under one
\* Connection: the table holds one key per flow, and the messages emitted for the
\* two directions carry the same Connection.
C1_OneKeyPerFlow ==
    /\ \A k1, k2 \in DOMAIN states : SameFlow(k1, k2) => k1 = k2
    /\ \A i, j \in Entries :
          (KeyOf(log[i].ingress).some /\ KeyOf(log[j].ingress).some
           /\ SameFlow(KeyOf(log[i].ingress).val, KeyOf(log[j].ingress).val))
          => KeyOf(log[i].ingress) = KeyOf(log[j].ingress)

\* C3: with no entry for C, of two consecutive non-terminating TCP packets of C
\* read at t1 and t2 with t2 - t1 < 30 s the first emits one Active and the
\* second emits nothing.
C3_Case(i, j) ==
    /\ IsOpenTcp(log[i].ingress) /\ IsOpenTcp(log[j].ingress)
    /\ NextOf(KeyOf(log[i].ingress).val, i, j)
    /\ FirstOf(KeyOf(log[i].ingress).val, i)
    /\ Inside(log[i].reads[1], log[j].reads[1])

C3_SuppressedInsideWindow ==
    \A i, j \in Entries :
        C3_Case(i, j) =>
            /\ log[i].out = <<Active(State(log[i].reads[1], KeyOf(log[i].ingress).val))>>
            /\ log[j].out = <<>>

C3_Witness ==
    \E i, j \in Entries :
        /\ C3_Case(i, j)
        /\ TimeLt(log[i].reads[1], log[j].reads[1])
        /\ log[j].out = <<>>

\* C4 as claimed: with no entry for C, two consecutive non-terminating TCP packets
\* of C read at t1 and t2 with t2 - t1 >= 30 s emit one Active each.
C4_Case(i, j) ==
    /\ IsOpenTcp(log[i].ingress) /\ IsOpenTcp(log[j].ingress)
    /\ NextOf(KeyOf(log[i].ingress).val, i, j)
    /\ FirstOf(KeyOf(log[i].ingress).val, i)

C4_TwoActives(i, j) ==
    /\ Len(log[i].out) = 1 /\ log[i].out[1].tag = "Active"
    /\ Len(log[j].out) = 1 /\ log[j].out[1].tag = "Active"

C4_RefreshAtWindow ==
    \A i, j \in Entries :
        (C4_Case(i, j) /\ ~Inside(log[i].reads[1], log[j].reads[1]))
        => C4_TwoActives(i, j)

\* C4 amended: the same with t2 - t1 > 30 s; at 30 s exactly the second packet
\* emits nothing.
C4_RefreshPastWindow ==
    \A i, j \in Entries :
        C4_Case(i, j) =>
            /\ PastWindow(log[i].reads[1], log[j].reads[1]) => C4_TwoActives(i, j)
            /\ AtWindow(log[i].reads[1], log[j].reads[1]) => log[j].out = <<>>

C4_Witness ==
    \E i, j \in Entries :
        /\ C4_Case(i, j)
        /\ PastWindow(log[i].reads[1], log[j].reads[1])
        /\ C4_TwoActives(i, j)

\* C5: every TCP packet with RST or FIN emits exactly one Ended and every ICMP
\* packet with a recoverable flow emits exactly one Failed, whatever the table
\* holds; so N consecutive RST packets of a Connection emit N Ended.
C5_TerminalNeverSuppressed ==
    \A i \in Entries :
        /\ IsClosingTcp(log[i].ingress) =>
              /\ Len(log[i].out) = 1
              /\ log[i].out[1].tag = "Ended"
              /\ log[i].out[1].state.connection = KeyOf(log[i].ingress).val
        /\ IsIcmpWithFlow(log[i].ingress) =>
              /\ Len(log[i].out) = 1
              /\ log[i].out[1].tag = "Failed"
              /\ log[i].out[1].state.connection = KeyOf(log[i].ingress).val

C5_Witness ==
    \E i, j, k \in Entries :
        /\ i < j /\ j < k
        /\ IsClosingTcp(log[i].ingress) /\ log[i].ingress.seg.rst
        /\ log[j].ingress = log[i].ingress
        /\ log[j].reads = log[i].reads
        /\ log[j].out # <<>> /\ log[j].out[1].tag = "Ended"
        /\ IsIcmpWithFlow(log[k].ingress)
        /\ log[k].out # <<>> /\ log[k].out[1].tag = "Failed"

\* The Active messages emitted so far: <<entry, message>> pairs.
Actives ==
    {<<i, log[i].out[1]>> : i \in {k \in Entries : log[k].out # <<>>
                                                   /\ log[k].out[1].tag = "Active"}}

\* The clock never went backwards: the values read so far, in order, do not
\* decrease.
SteadyClock ==
    /\ \A i \in Entries : Len(log[i].reads) = 2 => TimeLe(log[i].reads[1], log[i].reads[2])
    /\ \A i, j \in Entries :
          (i < j /\ log[i].reads # <<>> /\ log[j].reads # <<>>)
          => TimeLe(log[i].reads[Len(log[i].reads)], log[j].reads[1])

\* as_of values at least 30 s apart.
Apart(a, b) == ~Inside(a, b) \/ ~Inside(b, a)

\* C6 as claimed: any two Active messages emitted for one Connection have as_of
\* at least 30 s apart.
C6_ActiveRateBound ==
    \A x, y \in Actives :
        (x[1] < y[1] /\ x[2].state.connection = y[2].state.connection)
        => Apart(x[2].state.as_of, y[2].state.as_of)

\* An Ended or Failed of Connection c was emitted between entries i and j.
TerminalBetween(c, i, j) ==
    \E k \in Entries :
        /\ i < k /\ k < j
        /\ \E n \in 1..Len(log[k].out) :
              /\ log[k].out[n].tag \in {"Ended", "Failed"}
              /\ log[k].out[n].state.connection = c

\* C6 amended: while the clock does not go backwards, two Active messages of
\* one Connection with no Ended or Failed of that Connection emitted between them
\* have as_of at least 30 s apart.
C6_ActiveRateBoundWhileOpen ==
    \A x, y \in Actives :
        (/\ SteadyClock
         /\ x[1] < y[1]
         /\ x[2].state.connection = y[2].state.connection
         /\ ~TerminalBetween(x[2].state.connection, x[1], y[1]))
        => Apart(x[2].state.as_of, y[2].state.as_of)

C6_Witness ==
    \E x, y \in Actives :
        /\ SteadyClock
        /\ x[1] < y[1]
        /\ x[2].state.connection = y[2].state.connection
        /\ ~TerminalBetween(x[2].state.connection, x[1], y[1])
        /\ \E k \in Entries : x[1] < k /\ k < y[1] /\ log[k].out = <<>>
                              /\ KeyOf(log[k].ingress) = Some(x[2].state.connection)

\* A UDP packet from or to port 53 whose payload is a DNS message.
IsDns(f) ==
    /\ IsIp(f) /\ f.protocol = "UDP" /\ ParseUdpHeader(f.seg).ok
    /\ (ParseUdpHeader(f.seg).source_port = 53 \/ ParseUdpHeader(f.seg).dest_port = 53)
    /\ ParseDns(ParseUdpHeader(f.seg).rest).ok

QuestionsOf(f) == ParseDns(ParseUdpHeader(f.seg).rest).questions

AnswersOf(f) == ParseDns(ParseUdpHeader(f.seg).rest).answers

UdpKeyOf(f) ==
    Connection(f.interface, Endpoint(f.src, ParseUdpHeader(f.seg).source_port),
               Endpoint(f.dst, ParseUdpHeader(f.seg).dest_port), "Udp")

\* C12: a DNS packet with q >= 1 questions and a answers emits an
\* Ended(Connectionless) and then a Name with q + a entries, the questions first,
\* both for the packet's Connection.
C12_DnsDualEmission ==
    \A i \in Entries :
        (IsDns(log[i].ingress) /\ QuestionsOf(log[i].ingress) # <<>>) =>
            LET f == log[i].ingress
                q == Len(QuestionsOf(f))
                a == Len(AnswersOf(f))
                out == log[i].out
            IN  /\ Len(out) = 2
                /\ out[1].tag = "Ended" /\ out[1].closed = "Connectionless"
                /\ out[1].state.connection = UdpKeyOf(f)
                /\ out[2].tag = "Name"
                /\ out[2].state.connection = UdpKeyOf(f)
                /\ Len(out[2].names) = q + a
                /\ \A k \in 1..q : out[2].names[k] = Name(QuestionsOf(f)[k], None)
                /\ \A k \in 1..a : out[2].names[q + k].name = AnswersOf(f)[k].name
                /\ \A k \in 1..a : out[2].names[q + k].address.some

\* A query to port 53 with one question and one answer gave a Name of two
\* entries, and a response from port 53 with two answers a Name of three.
C12_Witness ==
    \E i, j \in Entries :
        /\ IsDns(log[i].ingress) /\ ParseUdpHeader(log[i].ingress.seg).dest_port = 53
        /\ Len(QuestionsOf(log[i].ingress)) = 1 /\ Len(AnswersOf(log[i].ingress)) = 1
        /\ Len(log[i].out) = 2 /\ Len(log[i].out[2].names) = 2
        /\ IsDns(log[j].ingress) /\ ParseUdpHeader(log[j].ingress.seg).source_port = 53
        /\ Len(log[j].out) = 2 /\ Len(log[j].out[2].names) = 3

\* The messages emitted so far: <<entry, position in its batch>>.
Emissions == {e \in Entries \X {1, 2} : e[2] <= Len(log[e[1]].out)}

MsgAt(e) == log[e[1]].out[e[2]]

Before(x, e) == x[1] < e[1] \/ (x[1] = e[1] /\ x[2] < e[2])

\* e is the last emission of S.
LastOf(e, S) == e \in S /\ \A x \in S : x = e \/ Before(x, e)

EmissionsFor(c) == {e \in Emissions : MsgAt(e).state.connection = c}

StateEmissionsFor(c) == {e \in EmissionsFor(c) : MsgAt(e).tag # "Name"}

\* C13 as claimed: the table entry of a Connection is the last message emitted for
\* it, of whichever variant.
C13_TableIsLastMessage ==
    \A e \in Emissions :
        LET c == MsgAt(e).state.connection
        IN  LastOf(e, EmissionsFor(c)) => (c \in DOMAIN states /\ states[c] = MsgAt(e))

\* C13 amended: the table entry of a Connection is the last Active, Ended or
\* Failed emitted for it; a Name is emitted and not stored, and the table has
\* an entry for no other Connection.
C13_TableIsLastStateMessage ==
    /\ \A e \in Emissions :
        LET c == MsgAt(e).state.connection
        IN  /\ LastOf(e, StateEmissionsFor(c)) =>
                  (c \in DOMAIN states /\ states[c] = MsgAt(e))
            /\ MsgAt(e).tag = "Name" => StateEmissionsFor(c) # {}
    /\ \A c \in DOMAIN states : StateEmissionsFor(c) # {}

\* A Connection whose entry was replaced by a later Ended and for which a Name
\* was emitted after that: the entry is the Ended.
C13_Witness ==
    \E e1, e2, e3 \in Emissions :
        /\ Before(e1, e2) /\ Before(e2, e3)
        /\ MsgAt(e1).state.connection = MsgAt(e3).state.connection
        /\ MsgAt(e2).state.connection = MsgAt(e3).state.connection
        /\ MsgAt(e1).tag = "Ended" /\ MsgAt(e2).tag = "Ended"
        /\ MsgAt(e1) # MsgAt(e2)
        /\ MsgAt(e3).tag = "Name"
        /\ LastOf(e3, EmissionsFor(MsgAt(e3).state.connection))
        /\ states[MsgAt(e3).state.connection] = MsgAt(e2)

\* C14: right after a non-terminating TCP packet of Connection C was classified
\* at time t, by a clock that does not go backwards, the entry of C is an
\* Active whose as_of is not more than 30 s before t.
C14_EntryFreshAfterPacket ==
    (log # <<>> /\ IsOpenTcp(log[Len(log)].ingress) /\ SteadyClock) =>
        LET c == KeyOf(log[Len(log)].ingress).val
            t == log[Len(log)].reads[1]
        IN  /\ c \in DOMAIN states
            /\ states[c].tag = "Active"
            /\ ~PastWindow(states[c].state.as_of, t)

\* The packet was suppressed exactly 30 s after the Active of the entry.
C14_Witness ==
    /\ log # <<>> /\ IsOpenTcp(log[Len(log)].ingress) /\ SteadyClock
    /\ log[Len(log)].out = <<>>
    /\ AtWindow(states[KeyOf(log[Len(log)].ingress).val].state.as_of, log[Len(log)].reads[1])

\* What the tracker has no handler for, or cannot parse: another link type,
\* an ethertype other than IPv4 and IPv6 (or no Ethernet header at all), an IP
\* protocol other than TCP, UDP and the ICMP of the IP version (or no IP
\* header), a transport header cut short, a port-53 payload that is not DNS,
\* an ICMP error that quotes less than a transport header.
Rejected(f) ==
    \/ f.link # "ETHERNET"
    \/ f.ethertype \notin {"IPv4", "IPv6"}
    \/ f.protocol \notin {"TCP", "UDP", IF f.ethertype = "IPv4" THEN "ICMP" ELSE "ICMP6"}
    \/ f.protocol = "TCP" /\ f.seg.len < 20
    \/ f.protocol # "TCP" /\ f.seg.len < 8
    \/ f.protocol = "UDP" /\ 53 \in {f.seg.w0, f.seg.w1} /\ f.seg.body.kind # "dns"
    \/ f.protocol \in {"ICMP", "ICMP6"} /\ f.seg.body.kind # "segment"

\* C17: a frame that is not Ethernet, has an unsupported ethertype or IP
\* protocol, or fails to parse at some layer, yields no message and leaves the
\* table (and the clock, which is not read) as it was.
C17_RejectedHasNoEffect ==
    [][Len(log') = Len(log) + 1 /\ Rejected(log'[Len(log')].ingress)
         => /\ log'[Len(log')].out = <<>>
            /\ log'[Len(log')].reads = <<>>
            /\ states' = states]_vars

\* A rejected frame arrived while the table held an entry, and the packet after
\* it was classified: processing went on.
C17_Witness ==
    \E i \in Entries :
        /\ i > 1 /\ i < Len(log)
        /\ log[i - 1].out # <<>>
        /\ Rejected(log[i].ingress) /\ log[i].out = <<>>
        /\ log[i + 1].out # <<>>
        /\ log[i].ingress.link = "ETHERNET"

\* C18: a Connection that is a key of the table stays one over every later
\* classification, and every Connection a packet emitted a message for is a key
\* from that packet on.
C18_KeysOnlyGrow ==
    [][/\ DOMAIN states \subseteq DOMAIN states'
       /\ Len(log') = Len(log) + 1
            => \A k \in 1..Len(log'[Len(log')].out) :
                   log'[Len(log')].out[k].state.connection \in DOMAIN states']_vars

\* Two flows are in the table and the older one has not been touched since the
\* newer one was entered twice.
C18_Witness ==
    \E c \in DOMAIN states, d \in DOMAIN states :
        /\ c # d
        /\ \E e \in StateEmissionsFor(c) :
               Cardinality({x \in StateEmissionsFor(d) : Before(e, x)}) >= 2
               /\ \A x \in StateEmissionsFor(c) : ~Before(e, x)

(***************************************************************************)
(* Wire codec (src/src/coding.rs).  encode yields the bytes appended to    *)
(* the writer, or fails; decode reads from the front of a byte sequence    *)
(* and yields the value and the bytes left, or fails.                      *)
(***************************************************************************)
V4_MARK == 1
V6_MARK == 2
TCP_MARK == 1
UDP_MARK == 2
NORMAL_MARK == 1
RESET_MARK == 2
CLESS_MARK == 3
TMOUT_MARK == 4
ACTIVE_MARK == 1
ENDED_MARK == 2
FAILED_MARK == 3
NAME_MARK == 4
ADDR_MARK == 1
ALIAS_MARK == 2
SVC_MARK == 3
TEXT_MARK == 4

Ok(val, rest) == [ok |-> TRUE, val |-> val, rest |-> rest]

Err(kind) == [ok |-> FALSE, err |-> kind]

Written(bytes) == [ok |-> TRUE, bytes |-> bytes]

\* `let v = x;` and what follows it, F(v).
Bind(x, F(_)) == CHOOSE r \in {F(v) : v \in {x}} : TRUE

\* `let v = x?;` and what follows it: a failure of x is returned as it is.
Try(x, F(_)) == Bind(x, LAMBDA v : IF v.ok THEN F(v) ELSE v)

\* Two encodes in sequence, the second skipped when the first fails (`?`).
Then(a, b) == Try(a, LAMBDA x : Try(b, LAMBDA y : Written(x.bytes \o y.bytes)))

\* impl Coder for u8, u16, u32, u64: big-endian, the high half first.
EncodeU8(x) == Written(<<x % 256>>)

EncodeU16(x) == Then(EncodeU8((x \div 256) % 256), EncodeU8(x % 256))

EncodeU32(x) == Then(EncodeU16((x \div 65536) % 65536), EncodeU16(x % 65536))

\* x >> 32 and x as u32 (values below 2^31 here, so the high half is 0).
High32(x) == (x \div 65536) \div 65536

Low32(x) == x - High32(x) * 65536 * 65536

EncodeU64(x) == Then(EncodeU32(High32(x)), EncodeU32(Low32(x)))

DecodeU8(b) == IF Len(b) >= 1 THEN Ok(b[1], Tail(b)) ELSE Err("UnexpectedEof")

DecodeU16(b) ==
    Try(DecodeU8(b), LAMBDA hi :
    Try(DecodeU8(hi.rest), LAMBDA lo :
    Ok(hi.val * 256 + lo.val, lo.rest)))

DecodeU32(b) ==
    Try(DecodeU16(b), LAMBDA hi :
    Try(DecodeU16(hi.rest), LAMBDA lo :
    Ok(hi.val * 65536 + lo.val, lo.rest)))

DecodeU64(b) ==
    Try(DecodeU32(b), LAMBDA hi :
    Try(DecodeU32(hi.rest), LAMBDA lo :
    Ok(hi.val * 65536 * 65536 + lo.val, lo.rest)))

\* read_exact of n bytes.
ReadExact(b, n) ==
    IF Len(b) >= n THEN Ok(SubSeq(b, 1, n), SubSeq(b, n + 1, Len(b)))
    ELSE Err("UnexpectedEof")

\* impl Coder for Ipv4Addr, Ipv6Addr, IpAddr
EncodeIpv4(a) == Written(a.octets)

DecodeIpv4(b) ==
    Try(ReadExact(b, 4), LAMBDA r :
    Ok([v |-> 4, octets |-> <<r.val[1], r.val[2], r.val[3], r.val[4]>>], r.rest))

EncodeIpv6(a) == Written(a.octets)

DecodeIpv6(b) ==
    Try(ReadExact(b, 16), LAMBDA r :
    Bind([i \in 1..8 |-> r.val[2 * i - 1] * 256 + r.val[2 * i]], LAMBDA segments :
    Ok([v |-> 6,
        octets |-> [i \in 1..16 |-> IF i % 2 = 1 THEN segments[(i + 1) \div 2] \div 256
                                    ELSE segments[i \div 2] % 256]],
       r.rest)))

EncodeIpAddr(a) ==
    IF a.v = 4 THEN Then(Written(<<V4_MARK>>), EncodeIpv4(a))
    ELSE Then(Written(<<V6_MARK>>), EncodeIpv6(a))

DecodeIpAddr(b) ==
    Try(ReadExact(b, 1), LAMBDA mark :
    CASE mark.val[1] = V4_MARK -> DecodeIpv4(mark.rest)
      [] mark.val[1] = V6_MARK -> DecodeIpv6(mark.rest)
      [] OTHER -> Err("InvalidInput"))

\* Protocol::number, impl Coder for Protocol
ProtocolNumber(p) == IF p = "Tcp" THEN TCP_MARK ELSE UDP_MARK

EncodeProtocol(p) == Written(<<ProtocolNumber(p)>>)

\* A Protocol::decode that takes every other tag for Udp.
DecodeProtocolLenient(b) ==
    Try(ReadExact(b, 1), LAMBDA mark :
    IF mark.val[1] = TCP_MARK THEN Ok("Tcp", mark.rest) ELSE Ok("Udp", mark.rest))

DecodeProtocol(b) ==
    Try(ReadExact(b, 1), LAMBDA mark :
    CASE mark.val[1] = TCP_MARK -> Ok("Tcp", mark.rest)
      [] mark.val[1] = UDP_MARK -> Ok("Udp", mark.rest)
      [] OTHER -> Err("InvalidInput"))

\* Closed::number with the numbers of TimedOut and Connectionless exchanged.
ClosedNumberSwapped(c) ==
    CASE c = "Normally" -> NORMAL_MARK
      [] c = "Reset" -> RESET_MARK
      [] c = "TimedOut" -> CLESS_MARK
      [] c = "Connectionless" -> TMOUT_MARK

\* Closed::number, impl Coder for Closed
ClosedNumber(c) ==
    CASE c = "Normally" -> NORMAL_MARK
      [] c = "Reset" -> RESET_MARK
      [] c = "TimedOut" -> TMOUT_MARK
      [] c = "Connectionless" -> CLESS_MARK

EncodeClosed(c) == Written(<<ClosedNumber(c)>>)

DecodeClosed(b) ==
    Try(ReadExact(b, 1), LAMBDA mark :
    CASE mark.val[1] = NORMAL_MARK -> Ok("Normally", mark.rest)
      [] mark.val[1] = RESET_MARK -> Ok("Reset", mark.rest)
      [] mark.val[1] = CLESS_MARK -> Ok("Connectionless", mark.rest)
      [] OTHER -> Err("InvalidInput"))

\* impl Coder for Problem
EncodeProblem(p) == Then(EncodeU8(p.kind), EncodeU8(p.code))

DecodeProblem(b) ==
    Try(DecodeU8(b), LAMBDA kind :
    Try(DecodeU8(kind.rest), LAMBDA code :
    Ok(Problem(kind.val, code.val), code.rest)))

\* impl Coder for SystemTime: the time since UNIX_EPOCH (secs < 0: before it).
EncodeSystemTime(t) ==
    IF t.secs < 0 THEN Err("InvalidData")
    ELSE Then(EncodeU64(t.secs), EncodeU32(t.nanos))

DecodeSystemTime(b) ==
    Try(DecodeU64(b), LAMBDA secs :
    Try(DecodeU32(secs.rest), LAMBDA nanos :
    Ok(Time(secs.val + nanos.val \div 1000000000, nanos.val % 1000000000), nanos.rest)))

\* impl Coder for Endpoint
EncodeEndpoint(e) == Then(EncodeIpAddr(e.addr), EncodeU16(e.port))

DecodeEndpoint(b) ==
    Try(DecodeIpAddr(b), LAMBDA addr :
    Try(DecodeU16(addr.rest), LAMBDA port :
    Ok(Endpoint(addr.val, port.val), port.rest)))

\* impl Coder for Connection: the interface goes out as a u16.
EncodeConnection(c) ==
    Then(EncodeU16(c.interface % 65536),
    Then(EncodeEndpoint(c.src),
    Then(EncodeEndpoint(c.dst), EncodeProtocol(c.protocol))))

DecodeConnection(b) ==
    Try(DecodeU16(b), LAMBDA interface :
    Try(DecodeEndpoint(interface.rest), LAMBDA src :
    Try(DecodeEndpoint(src.rest), LAMBDA dst :
    Try(DecodeProtocol(dst.rest), LAMBDA protocol :
    Ok(Connection(interface.val, src.val, dst.val, protocol.val), protocol.rest)))))

\* impl Coder for State
EncodeState(st) == Then(EncodeSystemTime(st.as_of), EncodeConnection(st.connection))

DecodeState(b) ==
    Try(DecodeSystemTime(b), LAMBDA as_of :
    Try(DecodeConnection(as_of.rest), LAMBDA connection :
    Ok(State(as_of.val, connection.val), connection.rest)))

\* core::str::from_utf8: whether a byte sequence is well-formed UTF-8.
RECURSIVE ValidUtf8(_)
ValidUtf8(bytes) ==
    Bind(bytes, LAMBDA b :
    LET n == Len(b)
        Cont(i) == i <= n /\ b[i] >= 128 /\ b[i] <= 191
        From(i) == SubSeq(b, i, n)
    IN  IF n = 0 THEN TRUE
        ELSE CASE b[1] <= 127 -> ValidUtf8(From(2))
               [] b[1] >= 194 /\ b[1] <= 223 -> Cont(2) /\ ValidUtf8(From(3))
               [] b[1] = 224 -> Cont(2) /\ b[2] >= 160 /\ Cont(3) /\ ValidUtf8(From(4))
               [] b[1] = 237 -> Cont(2) /\ b[2] <= 159 /\ Cont(3) /\ ValidUtf8(From(4))
               [] b[1] >= 225 /\ b[1] <= 239 /\ b[1] # 237 ->
                     Cont(2) /\ Cont(3) /\ ValidUtf8(From(4))
               [] b[1] = 240 ->
                     Cont(2) /\ b[2] >= 144 /\ Cont(3) /\ Cont(4) /\ ValidUtf8(From(5))
               [] b[1] >= 241 /\ b[1] <= 243 ->
                     Cont(2) /\ Cont(3) /\ Cont(4) /\ ValidUtf8(From(5))
               [] b[1] = 244 ->
                     Cont(2) /\ b[2] <= 143 /\ Cont(3) /\ Cont(4) /\ ValidUtf8(From(5))
               [] OTHER -> FALSE)

\* impl Coder for CodingVec<u8, u8> and CodingVec<u8, u16>: Width::from_usize
\* truncates the length to the width of the prefix.
EncodeBytes8(bytes) == Then(EncodeU8(Len(bytes) % 256), Written(bytes))

EncodeBytes16(bytes) == Then(EncodeU16(Len(bytes) % 65536), Written(bytes))

DecodeBytes8(b) == Try(DecodeU8(b), LAMBDA len : ReadExact(len.rest, len.val))

DecodeBytes16(b) == Try(DecodeU16(b), LAMBDA len : ReadExact(len.rest, len.val))

\* impl Coder for String
EncodeString(str) == EncodeBytes16(str)

DecodeString(b) ==
    Try(DecodeBytes16(b), LAMBDA r :
    IF ValidUtf8(r.val) THEN r ELSE Err("InvalidData"))

\* impl Coder for Option<u16>
EncodeOptionU16(o) == IF o.some THEN Then(EncodeU8(1), EncodeU16(o.val)) ELSE EncodeU8(0)

DecodeOptionU16(b) ==
    Try(DecodeU8(b), LAMBDA mark :
    IF mark.val = 1
    THEN Try(DecodeU16(mark.rest), LAMBDA inner : Ok(Some(inner.val), inner.rest))
    ELSE Ok(None, mark.rest))

\* impl Coder for CodingVec<CodingVec<u8, u8>, u8>
RECURSIVE EncodeEachText(_)
EncodeEachText(texts) ==
    IF texts = <<>> THEN Written(<<>>)
    ELSE Then(EncodeBytes8(Head(texts)), EncodeEachText(Tail(texts)))

EncodeTexts(texts) == Then(EncodeU8(Len(texts) % 256), EncodeEachText(texts))

RECURSIVE DecodeEachText(_, _, _)
DecodeEachText(n, b, vec) ==
    IF n = 0 THEN Ok(vec, b)
    ELSE Try(DecodeBytes8(b), LAMBDA elem :
         DecodeEachText(n - 1, elem.rest, Append(vec, elem.val)))

DecodeTexts(b) == Try(DecodeU8(b), LAMBDA len : DecodeEachText(len.val, len.rest, <<>>))

\* Resolution::number, impl Coder for Resolution
ResolutionNumber(r) ==
    CASE r.tag = "Address" -> ADDR_MARK
      [] r.tag = "Alias" -> ALIAS_MARK
      [] r.tag = "Service" -> SVC_MARK
      [] r.tag = "Text" -> TEXT_MARK

EncodeResolution(r) ==
    Then(EncodeU8(ResolutionNumber(r)),
         CASE r.tag = "Address" -> EncodeIpAddr(r.addr)
           [] r.tag = "Alias" -> EncodeString(r.alias)
           [] r.tag = "Service" -> Then(EncodeString(r.name), EncodeOptionU16(r.port))
           [] r.tag = "Text" -> EncodeTexts(r.texts))

DecodeResolution(b) ==
    Try(DecodeU8(b), LAMBDA mark :
    CASE mark.val = ADDR_MARK ->
            Try(DecodeIpAddr(mark.rest), LAMBDA addr :
            Ok([tag |-> "Address", addr |-> addr.val], addr.rest))
      [] mark.val = ALIAS_MARK ->
            Try(DecodeString(mark.rest), LAMBDA alias :
            Ok([tag |-> "Alias", alias |-> alias.val], alias.rest))
      [] mark.val = SVC_MARK ->
            Try(DecodeString(mark.rest), LAMBDA name :
            Try(DecodeOptionU16(name.rest), LAMBDA port :
            Ok([tag |-> "Service", name |-> name.val, port |-> port.val], port.rest)))
      [] mark.val = TEXT_MARK ->
            Try(DecodeTexts(mark.rest), LAMBDA texts :
            Ok([tag |-> "Text", texts |-> texts.val], texts.rest))
      [] OTHER -> Err("InvalidInput"))

\* impl Coder for Option<Resolution>
EncodeOptionResolution(o) ==
    IF o.some THEN Then(EncodeU8(1), EncodeResolution(o.val)) ELSE EncodeU8(0)

DecodeOptionResolution(b) ==
    Try(DecodeU8(b), LAMBDA mark :
    IF mark.val = 1
    THEN Try(DecodeResolution(mark.rest), LAMBDA inner : Ok(Some(inner.val), inner.rest))
    ELSE Ok(None, mark.rest))

\* impl Coder for Name
EncodeName(n) == Then(EncodeString(n.name), EncodeOptionResolution(n.address))

DecodeName(b) ==
    Try(DecodeString(b), LAMBDA name :
    Try(DecodeOptionResolution(name.rest), LAMBDA address :
    Ok(Name(name.val, address.val), address.rest)))

\* impl Coder for CodingVec<Name, u8>
RECURSIVE EncodeEachName(_)
EncodeEachName(names) ==
    IF names = <<>> THEN Written(<<>>)
    ELSE Then(EncodeName(Head(names)), EncodeEachName(Tail(names)))

EncodeNames(names) == Then(EncodeU8(Len(names) % 256), EncodeEachName(names))

RECURSIVE DecodeEachName(_, _, _)
DecodeEachName(n, b, vec) ==
    IF n = 0 THEN Ok(vec, b)
    ELSE Try(DecodeName(b), LAMBDA elem :
         DecodeEachName(n - 1, elem.rest, Append(vec, elem.val)))

DecodeNames(b) == Try(DecodeU8(b), LAMBDA len : DecodeEachName(len.val, len.rest, <<>>))

\* impl Coder for Message
EncodeMessage(m) ==
    CASE m.tag = "Active" -> Then(Written(<<ACTIVE_MARK>>), EncodeState(m.state))
      [] m.tag = "Ended" ->
            Then(Written(<<ENDED_MARK>>), Then(EncodeState(m.state), EncodeClosed(m.closed)))
      [] m.tag = "Failed" ->
            Then(Written(<<FAILED_MARK>>),
                 Then(EncodeState(m.state), EncodeProblem(m.problem)))
      [] m.tag = "Name" ->
            Then(Written(<<NAME_MARK>>), Then(EncodeState(m.state), EncodeNames(m.names)))

DecodeMessage(b) ==
    Try(ReadExact(b, 1), LAMBDA mark :
    CASE mark.val[1] = ACTIVE_MARK ->
            Try(DecodeState(mark.rest), LAMBDA state :
            Ok(Active(state.val), state.rest))
      [] mark.val[1] = ENDED_MARK ->
            Try(DecodeState(mark.rest), LAMBDA state :
            Try(DecodeClosed(state.rest), LAMBDA closed_ :
            Ok(Ended(state.val, closed_.val), closed_.rest)))
      [] mark.val[1] = FAILED_MARK ->
            Try(DecodeState(mark.rest), LAMBDA state :
            Try(DecodeProblem(state.rest), LAMBDA problem :
            Ok(Failed(state.val, problem.val), problem.rest)))
      [] mark.val[1] = NAME_MARK ->
            Try(DecodeState(mark.rest), LAMBDA state :
            Try(DecodeNames(state.rest), LAMBDA names :
            Ok(NameMsg(state.val, names.val), names.rest)))
      [] OTHER -> Err("InvalidInput"))

(***************************************************************************)
(* SpecCodec: a Message is encoded by the sender (Client::send) and the    *)
(* bytes are decoded by the receiver.                                      *)
(***************************************************************************)
HostV6 == [v |-> 6, octets |-> <<32, 1, 13, 184, 0, 0, 0, 0, 0, 0, 0, 0, 0, 0, 0, 1>>]

CodecConnections ==
    {Connection(0, Endpoint(HostA, 4000), Endpoint(HostB, 80), "Tcp"),
     Connection(1, Endpoint(HostV6, 53), Endpoint(HostA, 65535), "Udp")}

CodecStates ==
    {State(t, c) : t \in {Time(0, 0), Time(KEEPALIVE_SECS, 1)}, c \in CodecConnections}

CodecProblems == {Problem(3, 3), Problem(255, 255)}

CodecNameLists ==
    {<<>>,
     <<Name(<<97>>, None)>>,
     <<Name(<<97>>, None), Name(<<97>>, Some([tag |-> "Address", addr |-> HostB]))>>,
     <<Name(<<97, 46, 98>>, Some([tag |-> "Alias", alias |-> <<195, 169>>])),
       Name(<<>>, Some([tag |-> "Address", addr |-> HostV6]))>>,
     <<Name(<<97>>, Some([tag |-> "Service", name |-> <<98>>, port |-> None])),
       Name(<<97>>, Some([tag |-> "Service", name |-> <<98>>, port |-> Some(443)]))>>,
     <<Name(<<97>>, Some([tag |-> "Text", texts |-> <<<<1, 255>>, <<>>>>])),
       Name(<<97>>, Some([tag |-> "Text", texts |-> <<>>]))>>}

Closeds == {"Normally", "Reset", "TimedOut", "Connectionless"}

CodecMessages ==
    {Active(st) : st \in CodecStates}
    \cup {Ended(st, how) : st \in CodecStates, how \in Closeds}
    \cup {Failed(st, problem) : st \in CodecStates, problem \in CodecProblems}
    \cup {NameMsg(st, names) : st \in CodecStates, names \in CodecNameLists}

TrackerIdle == states = NoStates /\ clock = Time(0, 0) /\ log = <<>>

CodecInit ==
    /\ cmsg \in CodecMessages
    /\ cwire = <<>>
    /\ cres = [phase |-> "new"]
    /\ TrackerIdle
    /\ SyncIdle
    /\ ServerIdle
    /\ CaptureIdle

\* Client::send: object.encode(&mut buffer)
Encode ==
    /\ cres.phase = "new"
    /\ LET e == EncodeMessage(cmsg)
       IN  IF e.ok
           THEN cwire' = e.bytes /\ cres' = [phase |-> "encoded"]
           ELSE cwire' = cwire /\ cres' = [phase |-> "encode failed"]
    /\ UNCHANGED <<cmsg, trackerVars, syncVars, serverVars, captureVars>>

\* Byte values that are the tag of no variant of any tagged union.
UnknownTags == {0, 5, 255}

\* The receiver is handed other bytes than the sender encoded: one byte after the
\* timestamp differs (the timestamp is left alone, so that the decoded numbers
\* stay within the integers of the model).
Tamper(at, byte) ==
    /\ cres.phase = "encoded"
    /\ at <= Len(cwire)
    /\ at > 1 + 12 \/ at = 1
    /\ cwire[at] # byte
    /\ cwire' = [cwire EXCEPT ![at] = byte]
    /\ cres' = [phase |-> "tampered", at |-> at]
    /\ UNCHANGED <<cmsg, trackerVars, syncVars, serverVars, captureVars>>

\* Message::decode(&mut frame.as_slice())
Decode ==
    /\ cres.phase \in {"encoded", "tampered"}
    /\ cres' = IF cres.phase = "encoded"
               THEN [phase |-> "decoded", result |-> DecodeMessage(cwire)]
               ELSE [phase |-> "decoded tampered", at |-> cres.at,
                     result |-> DecodeMessage(cwire)]
    /\ UNCHANGED <<cmsg, cwire, trackerVars, syncVars, serverVars, captureVars>>

CodecNext ==
    \/ Encode
    \/ \E at \in 1..MaxWire, byte \in UnknownTags : Tamper(at, byte)
    \/ Decode

SpecCodec == CodecInit /\ [][CodecNext]_vars

\* C2: decoding the bytes encode produced for a Message succeeds and yields
\* that Message.
C2_RoundTrip ==
    /\ cres.phase # "encode failed"
    /\ cres.phase = "decoded" => (cres.result.ok /\ cres.result.val = cmsg)

(***************************************************************************)
(* Transport client (src/src/sync.rs).  One worker (client_thread) per     *)
(* remote; a frame is the number send_frame gave it (1, 2, ...), HELLO is  *)
(* the hello buffer.                                                       *)
(***************************************************************************)
HELLO == 0

\* RETRY_BACKOFF_WIN = (5, Duration::new(10, 0))
RETRY_BACKOFF_TRIES == 5

RETRY_BACKOFF_SECS == 10

NoAttempts == [n |-> 0, first |-> 0, latest |-> 0]

\* The remotes the client was built for.
Workers == DOMAIN queue

\* ClientConfig::build: a channel and a thread per remote; the thread starts
\* client_thread, which sets tries = 0 and start = Instant::now().
build(dests) ==
    /\ now = 0
    /\ closed = FALSE
    /\ sent = 0
    /\ queue = [w \in dests |-> <<>>]
    /\ wpc = [w \in dests |-> "connect"]
    /\ tries = [w \in dests |-> 0]
    /\ start = [w \in dests |-> 0]
    /\ hand = [w \in dests |-> 0]
    /\ conn = [w \in dests |-> <<>>]
    /\ written = [w \in dests |-> <<>>]
    /\ attempts = [w \in dests |-> NoAttempts]
    /\ drained = [w \in dests |-> FALSE]

\* Time passes, up to a limit.
Elapse(limit) ==
    /\ now + 5 <= limit
    /\ now' = now + 5
    /\ UNCHANGED <<closed, sent, queue, wpc, tries, start, hand, conn, written, attempts, drained,
                   trackerVars, codecVars, serverVars, captureVars>>

Tick == Elapse(MaxTime)

\* A channel made by mpsc::channel() is unbounded: send never waits.
ChannelBounded(q) == Len(q) < 1

ChannelAccepts(q) == TRUE

\* Client::send_frame: the frame goes into every worker's channel.
SendFrame ==
    /\ ~closed
    /\ sent < MaxFrames
    /\ \A w \in Workers : ChannelAccepts(queue[w])
    /\ sent' = sent + 1
    /\ queue' = [w \in Workers |-> Append(queue[w], sent + 1)]
    /\ UNCHANGED <<now, closed, wpc, tries, start, hand, conn, written, attempts, drained,
                   trackerVars, codecVars, serverVars, captureVars>>

\* The Client is dropped, and every Sender with it.
DropClient ==
    /\ ~closed
    /\ closed' = TRUE
    /\ UNCHANGED <<now, sent, queue, wpc, tries, start, hand, conn, written, attempts, drained,
                   trackerVars, codecVars, serverVars, captureVars>>

\* Whether the inner loop sleeps before its next connect: tries > RETRY_BACKOFF_WIN.0
MustBackOff(t) == t > RETRY_BACKOFF_TRIES

\* A turn of the inner loop that leaves start as it was after its sleep.
ConnectKeepStart(w, ok, cap) ==
    /\ wpc[w] = "connect"
    /\ MustBackOff(tries[w]) => now >= start[w] + RETRY_BACKOFF_SECS
    /\ start' = start
    /\ attempts' = [attempts EXCEPT ![w] =
                       [n |-> @.n + 1, first |-> IF @.n = 0 THEN now ELSE @.first,
                        latest |-> now]]
    /\ IF ok
       THEN /\ wpc' = [wpc EXCEPT ![w] = "hello"]
            /\ conn' = [conn EXCEPT ![w] = <<>>]
            /\ tries' = tries
       ELSE /\ tries[w] < cap
            /\ tries' = [tries EXCEPT ![w] = @ + 1]
            /\ UNCHANGED <<wpc, conn>>
    /\ UNCHANGED <<now, closed, sent, queue, hand, written, drained,
                   trackerVars, codecVars, serverVars, captureVars>>

\* One turn of the inner loop of client_thread: the sleep when it is due (it ends
\* once start + RETRY_BACKOFF_WIN.1 has passed), then TcpStream::connect.
\* At most cap failures in a row are followed.
Connect(w, ok, cap) ==
    /\ wpc[w] = "connect"
    /\ MustBackOff(tries[w]) => now >= start[w] + RETRY_BACKOFF_SECS
    /\ start' = [start EXCEPT ![w] = IF MustBackOff(tries[w]) THEN now ELSE @]
    /\ attempts' = [attempts EXCEPT ![w] =
                       [n |-> @.n + 1, first |-> IF @.n = 0 THEN now ELSE @.first,
                        latest |-> now]]
    /\ IF ok
       THEN /\ wpc' = [wpc EXCEPT ![w] = "hello"]
            /\ conn' = [conn EXCEPT ![w] = <<>>]
            /\ tries' = tries
       ELSE /\ tries[w] < cap
            /\ tries' = [tries EXCEPT ![w] = @ + 1]
            /\ UNCHANGED <<wpc, conn>>
    /\ UNCHANGED <<now, closed, sent, queue, hand, written, drained,
                   trackerVars, codecVars, serverVars, captureVars>>

Attempt(w, ok) == Connect(w, ok, MaxTries)

\* The socket is dropped and the outer loop starts over: tries = 0,
\* start = Instant::now().
Restart(w) ==
    /\ wpc' = [wpc EXCEPT ![w] = "connect"]
    /\ tries' = [tries EXCEPT ![w] = 0]
    /\ start' = [start EXCEPT ![w] = now]
    /\ attempts' = [attempts EXCEPT ![w] = NoAttempts]
    /\ conn' = [conn EXCEPT ![w] = <<>>]

\* A worker that takes up the channel again without writing the hello.
HelloSkipped(w, ok) ==
    /\ wpc[w] = "hello"
    /\ ok
    /\ wpc' = [wpc EXCEPT ![w] = "recv"]
    /\ UNCHANGED <<now, closed, sent, queue, tries, start, hand, conn, written, attempts, drained,
                   trackerVars, codecVars, serverVars, captureVars>>

\* sock.write_all(&hello)
Hello(w, ok) ==
    /\ wpc[w] = "hello"
    /\ IF ok
       THEN /\ conn' = [conn EXCEPT ![w] = Append(@, HELLO)]
            /\ wpc' = [wpc EXCEPT ![w] = "recv"]
            /\ UNCHANGED <<tries, start, attempts>>
       ELSE Restart(w)
    /\ UNCHANGED <<now, closed, sent, queue, hand, written, drained,
                   trackerVars, codecVars, serverVars, captureVars>>

\* A channel that hands out its newest frame first.
RecvNewest(w) ==
    /\ wpc[w] = "recv"
    /\ queue[w] # <<>>
    /\ hand' = [hand EXCEPT ![w] = queue[w][Len(queue[w])]]
    /\ queue' = [queue EXCEPT ![w] = SubSeq(@, 1, Len(@) - 1)]
    /\ wpc' = [wpc EXCEPT ![w] = "write"]
    /\ UNCHANGED <<now, closed, sent, tries, start, conn, written, attempts, drained,
                   trackerVars, codecVars, serverVars, captureVars>>

\* receiver.recv() returns the next frame of the channel.
Recv(w) ==
    /\ wpc[w] = "recv"
    /\ queue[w] # <<>>
    /\ hand' = [hand EXCEPT ![w] = Head(queue[w])]
    /\ queue' = [queue EXCEPT ![w] = Tail(@)]
    /\ wpc' = [wpc EXCEPT ![w] = "write"]
    /\ UNCHANGED <<now, closed, sent, tries, start, conn, written, attempts, drained,
                   trackerVars, codecVars, serverVars, captureVars>>

\* receiver.recv() fails: the channel is empty and every Sender is gone.
RecvClosed(w) ==
    /\ wpc[w] = "recv"
    /\ queue[w] = <<>>
    /\ closed
    /\ Restart(w)
    /\ drained' = [drained EXCEPT ![w] = TRUE]
    /\ UNCHANGED <<now, closed, sent, queue, hand, written,
                   trackerVars, codecVars, serverVars, captureVars>>

\* sock.write_all(&bytes)
Write(w, ok) ==
    /\ wpc[w] = "write"
    /\ hand' = [hand EXCEPT ![w] = 0]
    /\ IF ok
       THEN /\ conn' = [conn EXCEPT ![w] = Append(@, hand[w])]
            /\ written' = [written EXCEPT ![w] = Append(@, hand[w])]
            /\ wpc' = [wpc EXCEPT ![w] = "recv"]
            /\ UNCHANGED <<tries, start, attempts, queue>>
       ELSE /\ Restart(w)
            /\ UNCHANGED <<queue, written>>
    /\ UNCHANGED <<now, closed, sent, drained, trackerVars, codecVars, serverVars, captureVars>>

\* client_thread for remote w, whose connects and writes end as `outcomes` allows.
client_thread(w, outcomes) ==
    \/ \E ok \in outcomes : Attempt(w, ok)
    \/ \E ok \in outcomes : Hello(w, ok)
    \/ Recv(w)
    \/ RecvClosed(w)
    \/ \E ok \in outcomes : Write(w, ok)

\* One remote, which may refuse a connection or fail a write at any time.
SyncInit == build({1}) /\ TrackerIdle /\ CodecIdle /\ ServerIdle /\ CaptureIdle

SyncNext == Tick \/ SendFrame \/ DropClient \/ client_thread(1, BOOLEAN)

SpecSync == SyncInit /\ [][SyncNext]_vars

\* Two remotes: remote 1 may refuse and fail at any time, remote 2 accepts every
\* connection and every write.
RemotesInit ==
    build({1, 2}) /\ TrackerIdle /\ CodecIdle /\ ServerIdle /\ CaptureIdle

RemotesNext ==
    \/ Tick
    \/ SendFrame
    \/ DropClient
    \/ client_thread(1, BOOLEAN)
    \/ client_thread(2, {TRUE})

SpecRemotes == RemotesInit /\ [][RemotesNext]_vars

(***************************************************************************)
(* Properties of the transport client.                                     *)
(***************************************************************************)
Range(q) == {q[i] : i \in 1..Len(q)}

\* The frames worker w took from its channel that are neither in hand nor written.
Dropped(w) == {f \in 1..sent : f \notin Range(queue[w]) /\ hand[w] # f
                                /\ f \notin Range(written[w])}

\* C7: a frame leaves a worker's queue only by being written: every frame that
\* was broadcast is still queued for the worker, in its hand, or written by it.
C7_NoFrameDropped == \A w \in Workers : Dropped(w) = {}

\* C8: the 6th connect attempt of a streak of failures starts at least 10 seconds
\* after the 1st attempt of the streak started.
C8_SixthAttemptDelayed ==
    \A w \in Workers :
        attempts[w].n = RETRY_BACKOFF_TRIES + 1
            => attempts[w].latest >= attempts[w].first + RETRY_BACKOFF_SECS

\* Worker w waits in its back-off sleep.
BackingOff(w) ==
    wpc[w] = "connect" /\ MustBackOff(tries[w]) /\ now < start[w] + RETRY_BACKOFF_SECS

\* C9: send_frame is never held up by the state of a worker, and a worker that
\* is connected can take its next frame and write it whatever the other
\* workers are doing.
C9_RemotesIndependent ==
    /\ (~closed /\ sent < MaxFrames) => ENABLED SendFrame
    /\ \A w \in Workers :
        /\ (wpc[w] = "recv" /\ queue[w] # <<>>) => ENABLED Recv(w)
        /\ wpc[w] = "write" => ENABLED Write(w, TRUE)

\* Remote 1 is in back-off with every frame still queued, and remote 2 has been
\* written every frame.
C9_Witness ==
    /\ Workers = {1, 2}
    /\ sent = MaxFrames
    /\ BackingOff(1)
    /\ Len(queue[1]) = sent
    /\ queue[2] = <<>>
    /\ Len(written[2]) = sent

\* C10: whatever has been written on a worker's socket starts with the hello, and
\* the hello is on it once; a worker that is reconnecting holds no socket.
C10_HelloFirstAndOnce ==
    \A w \in Workers :
        /\ wpc[w] \in {"recv", "write"} => conn[w] # <<>>
        /\ \A i \in 1..Len(conn[w]) : (conn[w][i] = HELLO) <=> (i = 1)
        /\ wpc[w] = "connect" => conn[w] = <<>>

\* A write has failed, and on the connection made after it the hello and a frame
\* have been written.
C10_Witness ==
    \E w \in Workers :
        /\ Dropped(w) # {}
        /\ Len(conn[w]) >= 2
        /\ conn[w][1] = HELLO

\* C11: the frames a worker has written, over all its connections, are in the
\* order they were broadcast and none is written twice.
C11_FifoNoDuplicates ==
    \A w \in Workers :
        \A i, j \in 1..Len(written[w]) : i < j => written[w][i] < written[w][j]

\* A worker wrote a frame, lost its connection, and wrote a later frame on the
\* connection it made next.
C11_Witness ==
    \E w \in Workers :
        /\ Len(written[w]) >= 2
        /\ Len(conn[w]) = 2
        /\ conn[w][2] = written[w][Len(written[w])]

(***************************************************************************)
(* Properties of the codec's tags.  The positions are those of the layout: *)
(* Message tag, SystemTime (12 bytes), interface (2), source (family tag,  *)
(* address, port), destination, Protocol tag, then the variant's fields.   *)
(***************************************************************************)
MessageTag(m) ==
    CASE m.tag = "Active" -> 1 [] m.tag = "Ended" -> 2
      [] m.tag = "Failed" -> 3 [] m.tag = "Name" -> 4

ClosedTag(c) ==
    CASE c = "Normally" -> 1 [] c = "Reset" -> 2
      [] c = "Connectionless" -> 3 [] c = "TimedOut" -> 4

ProtocolTag(p) == CASE p = "Tcp" -> 1 [] p = "Udp" -> 2

ResolutionTag(r) ==
    CASE r.tag = "Address" -> 1 [] r.tag = "Alias" -> 2
      [] r.tag = "Service" -> 3 [] r.tag = "Text" -> 4

FamilyTag(a) == CASE a.v = 4 -> 1 [] a.v = 6 -> 2

AddrLen(a) == IF a.v = 4 THEN 4 ELSE 16

SrcFamilyAt == 1 + 12 + 2 + 1

DstFamilyAt(c) == SrcFamilyAt + 1 + AddrLen(c.src.addr) + 2

ProtocolAt(c) == DstFamilyAt(c) + 1 + AddrLen(c.dst.addr) + 2

\* Where the k-th Name of a Name message starts.
NameAt(m, k) ==
    ProtocolAt(m.state.connection) + 2
    + Len(EncodeEachName(SubSeq(m.names, 1, k - 1)).bytes)

\* Where the Resolution tag of a Name that starts at `at` is.
ResolutionAt(n, at) == at + 2 + Len(n.name) + 1

\* C15: the bytes encode wrote for a Message hold, at the position of each
\* enumerated value, the tag fixed for its variant.
C15_TagsOnEncode ==
    cres.phase \in {"encoded", "decoded"} =>
        LET c == cmsg.state.connection
        IN  /\ cwire[1] = MessageTag(cmsg)
            /\ cwire[SrcFamilyAt] = FamilyTag(c.src.addr)
            /\ cwire[DstFamilyAt(c)] = FamilyTag(c.dst.addr)
            /\ cwire[ProtocolAt(c)] = ProtocolTag(c.protocol)
            /\ cmsg.tag = "Ended" => cwire[ProtocolAt(c) + 1] = ClosedTag(cmsg.closed)
            /\ cmsg.tag = "Name" =>
                  \A k \in 1..Len(cmsg.names) :
                      cmsg.names[k].address.some =>
                          LET r == cmsg.names[k].address.val
                              at == ResolutionAt(cmsg.names[k], NameAt(cmsg, k))
                          IN  /\ cwire[at] = ResolutionTag(r)
                              /\ r.tag = "Address" => cwire[at + 1] = FamilyTag(r.addr)

\* An Ended(TimedOut) between an IPv6 and an IPv4 endpoint was encoded.
C15_Witness ==
    /\ cres.phase = "encoded"
    /\ cmsg.tag = "Ended" /\ cmsg.closed = "TimedOut"
    /\ cmsg.state.connection.src.addr.v = 6
    /\ cwire[ProtocolAt(cmsg.state.connection) + 1] = 4
    /\ Len(cwire) = ProtocolAt(cmsg.state.connection) + 1

\* The positions of the tags in the encoding of Message m.
TagPositions(m) ==
    {1, SrcFamilyAt, DstFamilyAt(m.state.connection), ProtocolAt(m.state.connection)}
    \cup (IF m.tag = "Ended" THEN {ProtocolAt(m.state.connection) + 1} ELSE {})
    \cup (IF m.tag = "Name"
          THEN UNION {
                 {ResolutionAt(m.names[k], NameAt(m, k))}
                 \cup (IF m.names[k].address.val.tag = "Address"
                       THEN {ResolutionAt(m.names[k], NameAt(m, k)) + 1} ELSE {})
                 : k \in {j \in 1..Len(m.names) : m.names[j].address.some}}
          ELSE {})

\* C16: bytes whose tag, at the position of any tagged union, is the tag of none
\* of its variants do not decode: decode returns an error.
C16_UnknownTagFails ==
    (cres.phase = "decoded tampered" /\ cres.at \in TagPositions(cmsg)) =>
        (~cres.result.ok /\ cres.result.err = "InvalidInput")

\* The Resolution tag of a Name was replaced and decode failed.
C16_Witness ==
    /\ cres.phase = "decoded tampered"
    /\ cmsg.tag = "Name"
    /\ \E k \in 1..Len(cmsg.names) :
          /\ cmsg.names[k].address.some
          /\ cres.at = ResolutionAt(cmsg.names[k], NameAt(cmsg, k))
    /\ ~cres.result.ok

\* C20: once recv() has failed on the closed, drained channel the worker starts
\* no connection attempt and writes no hello.
C20_StopsOnClosure ==
    \A w \in Workers : drained[w] => attempts[w].n = 0 /\ conn[w] = <<>>

(***************************************************************************)
(* The collector (src/src/main.rs): client_thread, one per accepted        *)
(* socket, reads the ident frame and then message frames until a read of   *)
(* the socket fails.                                                       *)
(***************************************************************************)
\* What Vec::<u8>::decode(&mut client) returns next: a whole frame, or an error
\* (a frame cut short; past the end of the stream, the closed socket).
Frame(payload) == [whole |-> TRUE, payload |-> payload]

Cut == [whole |-> FALSE]

ServerState == State(Time(0, 0), Connection(0, Endpoint(HostA, 4000), Endpoint(HostB, 80), "Tcp"))

BadTag(bytes) == [bytes EXCEPT ![1] = 0]

Truncated(bytes) == SubSeq(bytes, 1, Len(bytes) - 1)

\* Payloads a peer may send: encoded messages, one with an unknown tag byte, one
\* that ends early, and a Name whose string is not UTF-8.
Payloads ==
    {EncodeMessage(Active(ServerState)).bytes,
     EncodeMessage(Failed(ServerState, Problem(3, 3))).bytes,
     EncodeMessage(NameMsg(ServerState, <<>>)).bytes,
     BadTag(EncodeMessage(Active(ServerState)).bytes),
     Truncated(EncodeMessage(Active(ServerState)).bytes),
     EncodeMessage(NameMsg(ServerState, <<Name(<<255>>, None)>>)).bytes}

Idents == {Frame(<<104>>), Frame(<<255>>), Cut}

StreamItems == {Frame(p) : p \in Payloads} \cup {Cut}

Streams ==
    UNION {{<<i>> \o t : i \in Idents, t \in [1..n -> StreamItems]} : n \in 0..MaxStream}

ServerInit ==
    /\ stream \in Streams
    /\ nread = 0
    /\ ident = <<>>
    /\ rows = <<>>
    /\ spc = "ident"
    /\ TrackerIdle
    /\ CodecIdle
    /\ SyncIdle
    /\ CaptureIdle

\* The next frame of the socket, if it delivers one.
NextFrame == IF nread < Len(stream) THEN stream[nread + 1] ELSE Cut

\* let ident = ...: the first frame, as a String; client_thread returns when
\* there is none or it is not UTF-8.
ReadIdent ==
    /\ spc = "ident"
    /\ nread' = IF nread < Len(stream) THEN nread + 1 ELSE nread
    /\ IF NextFrame.whole /\ ValidUtf8(NextFrame.payload)
       THEN ident' = NextFrame.payload /\ spc' = "frames"
       ELSE ident' = ident /\ spc' = "returned"
    /\ UNCHANGED <<stream, rows, trackerVars, codecVars, syncVars, captureVars>>

\* One turn of `while let Ok(frame) = Vec::<u8>::decode(&mut client)`: the loop
\* ends when the read fails; a payload that decodes is inserted (Message::Name
\* reaches todo!() and the thread panics); a payload that does not decode falls
\* through the `if let` and the loop reads the next frame.
ReadFrame ==
    /\ spc = "frames"
    /\ nread' = IF nread < Len(stream) THEN nread + 1 ELSE nread
    /\ IF NextFrame.whole
       THEN LET message == DecodeMessage(NextFrame.payload)
            IN  IF message.ok
                THEN IF message.val.tag = "Name"
                     THEN rows' = rows /\ spc' = "panicked"
                     ELSE /\ rows' = Append(rows, [at |-> nread + 1, ident |-> ident,
                                                   message |-> message.val])
                          /\ spc' = spc
                ELSE rows' = rows /\ spc' = spc
       ELSE rows' = rows /\ spc' = "returned"
    /\ UNCHANGED <<stream, ident, trackerVars, codecVars, syncVars, captureVars>>

ServerNext == ReadIdent \/ ReadFrame

SpecServer == ServerInit /\ [][ServerNext]_vars

\* Frame k of the stream arrived whole and its payload is not a Message.
Undecodable(k) == stream[k].whole /\ ~DecodeMessage(stream[k].payload).ok

\* C19: once a frame's payload has failed to decode as a Message, no later frame
\* of the connection is processed.
C19_DecodeFailureFatal ==
    \A k \in 2..nread : Undecodable(k) => \A i \in 1..Len(rows) : rows[i].at < k

(***************************************************************************)
(* The hello (src/src/sync.rs, ClientConfig::build) and its reading by the *)
(* collector (src/src/main.rs, client_thread).  The outer frame is the     *)
(* `impl Coder for Vec<u8>` that send_frame and client_thread call: a      *)
(* 2-byte big-endian length followed by that many bytes.                   *)
(***************************************************************************)
EncodeFrame(bytes) == EncodeBytes16(bytes)

DecodeFrame(b) == DecodeBytes16(b)

\* A hello wrapped like a message frame: send_frame applied to the encoded ident.
HelloFramed(str) == Try(EncodeString(str), LAMBDA e : EncodeFrame(e.bytes))

\* self.ident.encode(&mut hello)
HelloOf(str) == EncodeString(str)

\* The bytes Client::send puts on every queue for an object that encodes to
\* `encoded`: send_frame wraps them once.
SendOf(encoded) == Try(encoded, LAMBDA e : EncodeFrame(e.bytes))

IdentBytes == {104, 48, 0}

IdentStrings == UNION {[1..n -> IdentBytes] : n \in 0..MaxIdent}

HelloInit ==
    /\ cmsg \in IdentStrings
    /\ cwire = <<>>
    /\ cres = [phase |-> "new"]
    /\ TrackerIdle
    /\ SyncIdle
    /\ ServerIdle
    /\ CaptureIdle

\* ClientConfig::build: the hello every worker writes first on each connection.
BuildHello ==
    /\ cres.phase = "new"
    /\ cwire' = HelloOf(cmsg).bytes
    /\ cres' = [phase |-> "hello"]
    /\ UNCHANGED <<cmsg, trackerVars, syncVars, serverVars, captureVars>>

\* client_thread of the collector reads the first frame and takes its payload
\* as the ident when it is UTF-8.
ReadHello ==
    /\ cres.phase = "hello"
    /\ cres' = [phase |-> "ident",
                result |-> Try(DecodeFrame(cwire), LAMBDA frame :
                               IF ValidUtf8(frame.val) THEN frame ELSE Err("InvalidData"))]
    /\ UNCHANGED <<cmsg, cwire, trackerVars, syncVars, serverVars, captureVars>>

HelloNext == BuildHello \/ ReadHello

SpecHello == HelloInit /\ [][HelloNext]_vars

HelloBuilt == cres.phase \in {"hello", "ident"}

\* C21 as claimed: the hello is the outer frame wrapped around the encoded
\* identity string, like a message frame.
C21_HelloIsFramedEncoding ==
    HelloBuilt => cwire = SendOf(EncodeString(cmsg)).bytes

\* C21: the hello is the encoded identity string alone, a 2-byte big-endian
\* length followed by the UTF-8 bytes, with no second length in front of it; the
\* collector, reading it as one outer frame, recovers the identity.
C21_HelloIsEncodedIdent ==
    /\ HelloBuilt => cwire = <<Len(cmsg) \div 256, Len(cmsg) % 256>> \o cmsg
    /\ cres.phase = "ident" => cres.result.ok /\ cres.result.val = cmsg
                               /\ cres.result.rest = <<>>

C21_Witness ==
    /\ cres.phase = "ident" /\ cres.result.ok
    /\ Len(cmsg) = MaxIdent
    /\ cwire = <<0, MaxIdent>> \o cmsg

(***************************************************************************)
(* The capture pipeline (src/src/observe.rs, ObserverConfig::start and     *)
(* Observer::next): one thread per device takes packets from its capture   *)
(* and sends them into one mpsc channel, which the Observer drains.        *)
(***************************************************************************)
Interfaces == {0, 1}

\* What a capture on interface idx may return: a segment of the flow, with or
\* without FIN.
CaptureFrame(idx, fin) == TcpFrame(idx, HostA, 4000, HostB, 80, FALSE, fin)

CaptureInit ==
    /\ states = NoStates
    /\ clock = Time(0, 0)
    /\ log = <<>>
    /\ packets = <<>>
    /\ held = [idx \in Interfaces |-> None]
    /\ captured = <<>>
    /\ alive = Interfaces
    /\ returned = <<>>
    /\ CodecIdle
    /\ SyncIdle
    /\ ServerIdle

\* cap.next_packet() returns pkt to the thread of interface idx.
NextPacket(idx, pkt) ==
    /\ idx \in alive
    /\ ~held[idx].some
    /\ Len(captured) < MaxPackets
    /\ held' = [held EXCEPT ![idx] = Some(pkt)]
    /\ captured' = Append(captured, pkt)
    /\ UNCHANGED <<packets, alive, returned, trackerVars, codecVars, syncVars, serverVars>>

\* A channel that puts the newest Ingress in front.
EpSendFront(idx) ==
    /\ held[idx].some
    /\ packets' = <<held[idx].val>> \o packets
    /\ held' = [held EXCEPT ![idx] = None]
    /\ UNCHANGED <<captured, alive, returned, trackerVars, codecVars, syncVars, serverVars>>

\* ep.send(Ingress { data, interface: idx, link })
EpSend(idx) ==
    /\ held[idx].some
    /\ packets' = Append(packets, held[idx].val)
    /\ held' = [held EXCEPT ![idx] = None]
    /\ UNCHANGED <<captured, alive, returned, trackerVars, codecVars, syncVars, serverVars>>

\* Observer::next: self.packets.recv(), then the classification of what it returned.
ObserverRecv(r1, r2) ==
    /\ packets # <<>>
    /\ Classified(Head(packets), r1, r2)
    /\ packets' = Tail(packets)
    /\ UNCHANGED <<held, captured, alive, returned>>

CaptureNext ==
    \/ \E idx \in Interfaces, fin \in BOOLEAN : NextPacket(idx, CaptureFrame(idx, fin))
    \/ \E idx \in Interfaces : EpSend(idx)
    \/ \E r1 \in DatagramTimes, r2 \in DatagramTimes : ObserverRecv(r1, r2)

SpecCapture == CaptureInit /\ [][CaptureNext]_vars

\* The packets of interface idx in a sequence of Ingress, in order.
OfInterface(seq, idx) == SelectSeq(seq, LAMBDA f : f.interface = idx)

Classifieds == [k \in 1..Len(log) |-> log[k].ingress]

IsPrefix(a, b) == Len(a) <= Len(b) /\ a = SubSeq(b, 1, Len(a))

\* C22: the packets of one interface are classified in the order they were
\* captured, whatever the other capture threads do.
C22_PerInterfaceFifo ==
    \A idx \in Interfaces :
        IsPrefix(OfInterface(Classifieds, idx), OfInterface(captured, idx))

\* Two different packets of one interface were classified in capture order
\* while a packet of the other interface, captured between them, overtook one.
C22_Witness ==
    /\ ~IsPrefix(Classifieds, captured)
    /\ \E idx \in Interfaces :
          /\ Len(OfInterface(Classifieds, idx)) >= 2
          /\ OfInterface(Classifieds, idx)[1] # OfInterface(Classifieds, idx)[2]
          /\ OfInterface(Classifieds, 1 - idx) # <<>>

(***************************************************************************)
(* Further properties of the tracker.                                      *)
(***************************************************************************)
\* C23: every packet from or to port 53 whose payload parses as a DNS message
\* emits an Ended(Connectionless) and a Name for its Connection, a message
\* without questions included.
C23_EveryDnsDualEmission ==
    \A i \in Entries :
        IsDns(log[i].ingress) =>
            /\ Len(log[i].out) = 2
            /\ log[i].out[1].tag = "Ended" /\ log[i].out[1].closed = "Connectionless"
            /\ log[i].out[1].state.connection = UdpKeyOf(log[i].ingress)
            /\ log[i].out[2].tag = "Name"

\* C24: the Ended and the Name emitted for one DNS packet carry the same State,
\* Connection and as_of, whatever the clock does meanwhile.
C24_DnsSameState ==
    \A i \in Entries :
        (IsDns(log[i].ingress) /\ Len(log[i].out) = 2) =>
            log[i].out[1].state = log[i].out[2].state

\* An ICMP error about the flow of `original`: it quotes that packet.
Quotes(f, original) ==
    /\ IsIp(f) /\ f.protocol = "ICMP" /\ ParseIcmpHeader(f.seg).ok
    /\ ParseIcmpHeader(f.seg).rest = QuoteOf(original)

\* C25: the Failed emitted for an ICMP error that quotes a packet of flow F
\* carries F's Connection (the quoted addresses, ports and protocol), and an
\* ICMP payload that is neither UDP nor TCP emits nothing.
C25_FailedCarriesQuotedFlow ==
    \A i \in Entries :
        /\ Quotes(log[i].ingress, Syn) =>
              /\ Len(log[i].out) = 1
              /\ log[i].out[1].tag = "Failed"
              /\ log[i].out[1].state.connection = KeyOf(Syn).val
        /\ (IsIp(log[i].ingress) /\ log[i].ingress.protocol = "ICMP"
            /\ ~IsIcmpWithFlow(log[i].ingress)) => log[i].out = <<>>

\* C26: a TCP packet with RST, with or without FIN, emits Ended(Reset); with FIN
\* alone Ended(Normally); with neither flag it emits no Ended.
C26_ResetBeforeFin ==
    \A i \in Entries :
        IsTcp(log[i].ingress) =>
            LET seg == log[i].ingress.seg
                out == log[i].out
            IN  /\ seg.rst => Len(out) = 1 /\ out[1].tag = "Ended" /\ out[1].closed = "Reset"
                /\ (seg.fin /\ ~seg.rst) =>
                      Len(out) = 1 /\ out[1].tag = "Ended" /\ out[1].closed = "Normally"
                /\ (~seg.fin /\ ~seg.rst) => \A k \in 1..Len(out) : out[k].tag # "Ended"

\* A packet with RST and FIN, one with RST alone and one with FIN alone have
\* been classified.
C26_Witness ==
    \E i, j, k \in Entries :
        /\ IsTcp(log[i].ingress) /\ log[i].ingress.seg.rst /\ log[i].ingress.seg.fin
        /\ log[i].out[1].closed = "Reset"
        /\ IsTcp(log[j].ingress) /\ log[j].ingress.seg.rst /\ ~log[j].ingress.seg.fin
        /\ IsTcp(log[k].ingress) /\ ~log[k].ingress.seg.rst /\ log[k].ingress.seg.fin
        /\ log[k].out[1].closed = "Normally"

\* A UDP packet with a whole header and neither port 53.
IsPlainUdp(f) ==
    /\ IsIp(f) /\ f.protocol = "UDP" /\ ParseUdpHeader(f.seg).ok
    /\ ParseUdpHeader(f.seg).source_port # 53 /\ ParseUdpHeader(f.seg).dest_port # 53

\* The log entry of the step being taken.
Latest == log'[Len(log')]

Stepped == Len(log') = Len(log) + 1

\* C27: every UDP packet with neither port 53 emits exactly one
\* Ended(Connectionless), stamped with the clock read, and the table entry of
\* its Connection becomes that message, whatever the table held before.
C27_UdpAlwaysEnded ==
    [][(Stepped /\ IsPlainUdp(Latest.ingress)) =>
          /\ Latest.out = <<Ended(State(Latest.reads[1], UdpKeyOf(Latest.ingress)),
                                  "Connectionless")>>
          /\ UdpKeyOf(Latest.ingress) \in DOMAIN states'
          /\ states'[UdpKeyOf(Latest.ingress)] = Latest.out[1]]_vars

\* The same datagram twice at the same instant: the second found the Ended of
\* the first in the table and emitted again.
C27_Witness ==
    \E i \in Entries :
        /\ i > 1
        /\ IsPlainUdp(log[i].ingress) /\ log[i - 1].ingress = log[i].ingress
        /\ log[i].reads = log[i - 1].reads
        /\ Len(log[i - 1].out) = 1 /\ Len(log[i].out) = 1
        /\ log[i].out[1].tag = "Ended"

TcpKeyOf(f) ==
    Connection(f.interface, Endpoint(f.src, ParseTcpHeader(f.seg).source_port),
               Endpoint(f.dst, ParseTcpHeader(f.seg).dest_port), "Tcp")

\* The table has no Active entry for c.
NotActive(c) == c \notin DOMAIN states \/ states[c].tag # "Active"

\* C28: when the entry of its Connection is absent, Ended or Failed, a TCP
\* packet without RST and FIN emits Active(State{now, C}) and stores it, however
\* little time has passed since the entry was written.
C28_FreshActiveWhenNotActive ==
    [][(Stepped /\ IsOpenTcp(Latest.ingress) /\ NotActive(TcpKeyOf(Latest.ingress))) =>
          /\ Latest.out = <<Active(State(Latest.reads[1], TcpKeyOf(Latest.ingress)))>>
          /\ TcpKeyOf(Latest.ingress) \in DOMAIN states'
          /\ states'[TcpKeyOf(Latest.ingress)] = Latest.out[1]]_vars

\* A flow was ended and, at the same instant, a further packet of it made it
\* Active again; and a flow with no entry became Active.
C28_Witness ==
    \E i \in Entries :
        /\ i > 1
        /\ IsClosingTcp(log[i - 1].ingress) /\ IsOpenTcp(log[i].ingress)
        /\ TcpKeyOf(log[i - 1].ingress) = TcpKeyOf(log[i].ingress)
        /\ log[i].reads = log[i - 1].reads
        /\ Len(log[i].out) = 1 /\ log[i].out[1].tag = "Active"
        /\ IsOpenTcp(log[1].ingress) /\ Len(log[1].out) = 1

\* C29: classifying a packet changes no table entry but that of the Connection
\* of the messages it emits, and a packet that emits nothing (a suppressed TCP
\* packet among them) changes no entry at all: the stored as_of stays.
C29_ClassifyFrame ==
    [][Stepped =>
          /\ Latest.out = <<>> => states' = states
          /\ Latest.out # <<>> =>
                \A c \in DOMAIN states :
                    c # Latest.out[1].state.connection => /\ c \in DOMAIN states'
                                                          /\ states'[c] = states[c]
          /\ \A k \in 1..Len(Latest.out) :
                Latest.out[k].state.connection = Latest.out[1].state.connection
          /\ IsTcp(Latest.ingress) /\ Latest.out # <<>> =>
                Latest.out[1].state.connection = TcpKeyOf(Latest.ingress)
          /\ IsPlainUdp(Latest.ingress) \/ IsDns(Latest.ingress) =>
                \A k \in 1..Len(Latest.out) :
                    Latest.out[k].state.connection = UdpKeyOf(Latest.ingress)]_vars

\* With the entry of another flow in the table, a TCP packet of a flow that is
\* Active was suppressed.
C29_Witness ==
    /\ Len(log) >= 3
    /\ IsOpenTcp(log[Len(log)].ingress) /\ log[Len(log)].out = <<>>
    /\ Cardinality(DOMAIN states) >= 2
    /\ states[TcpKeyOf(log[Len(log)].ingress)].tag = "Active"

(***************************************************************************)
(* Length-prefixed sequences (src/src/coding.rs, impl Coder for CodingVec) *)
(* with a one-byte prefix, on a text record: CodingVec<u8, u8>.            *)
(***************************************************************************)
TextOf(n) == [k \in 1..n |-> 97]

Vecs == {TextOf(n) : n \in 0..MaxVec}

VecInit ==
    /\ cmsg \in Vecs
    /\ cwire = <<>>
    /\ cres = [phase |-> "new"]
    /\ TrackerIdle
    /\ SyncIdle
    /\ ServerIdle
    /\ CaptureIdle

\* CodingVec::<u8, u8>::new(..).encode(writer)
EncodeVec ==
    /\ cres.phase = "new"
    /\ cwire' = EncodeBytes8(cmsg).bytes
    /\ cres' = [phase |-> "encoded"]
    /\ UNCHANGED <<cmsg, trackerVars, syncVars, serverVars, captureVars>>

\* CodingVec::<u8, u8>::decode(reader)
DecodeVec ==
    /\ cres.phase = "encoded"
    /\ cres' = [phase |-> "decoded", result |-> DecodeBytes8(cwire)]
    /\ UNCHANGED <<cmsg, cwire, trackerVars, syncVars, serverVars, captureVars>>

VecNext == EncodeVec \/ DecodeVec

SpecVec == VecInit /\ [][VecNext]_vars

\* C30: the encoded prefix is the number of elements that follow it, for a
\* sequence of any length, and decoding the encoding returns the sequence.
C30_PrefixIsLength ==
    /\ cres.phase \in {"encoded", "decoded"} => cwire[1] = Len(cmsg)
    /\ cres.phase = "decoded" =>
          cres.result.ok /\ cres.result.val = cmsg /\ cres.result.rest = <<>>

(***************************************************************************)
(* Connection on the wire (src/src/coding.rs, impl Coder for Connection).  *)
(* Connection.interface is a usize, the index of the capture device.       *)
(***************************************************************************)
InterfaceIndexes == {0, 1, 65535, 65536, 65537}

WireEndpoints == {Endpoint(HostA, 4000), Endpoint(HostV6, 53), Endpoint(HostB, 65535)}

WireConnections ==
    {Connection(i, s, d, p) :
        i \in InterfaceIndexes, s \in WireEndpoints, d \in WireEndpoints, p \in {"Tcp", "Udp"}}

ConnectionInit ==
    /\ cmsg \in WireConnections
    /\ cwire = <<>>
    /\ cres = [phase |-> "new"]
    /\ TrackerIdle
    /\ SyncIdle
    /\ ServerIdle
    /\ CaptureIdle

\* Connection::encode
EncodeConn ==
    /\ cres.phase = "new"
    /\ cwire' = EncodeConnection(cmsg).bytes
    /\ cres' = [phase |-> "encoded"]
    /\ UNCHANGED <<cmsg, trackerVars, syncVars, serverVars, captureVars>>

\* Connection::decode
DecodeConn ==
    /\ cres.phase = "encoded"
    /\ cres' = [phase |-> "decoded", result |-> DecodeConnection(cwire)]
    /\ UNCHANGED <<cmsg, cwire, trackerVars, syncVars, serverVars, captureVars>>

ConnectionNext == EncodeConn \/ DecodeConn

SpecConnection == ConnectionInit /\ [][ConnectionNext]_vars

\* C31: decoding the encoding of a Connection returns its interface index, for
\* every interface index.
C31_InterfaceRoundTrip ==
    cres.phase = "decoded" =>
        cres.result.ok /\ cres.result.val.interface = cmsg.interface

(***************************************************************************)
(* Optional values on the wire (src/src/coding.rs, impl Coder for          *)
(* Option<T>), on Option<u16>: the port of Resolution::Service.            *)
(***************************************************************************)
Bytes == 0..255

\* What the reader may hold: any presence byte, followed by a port or nothing.
OptionWires == {<<mark>> \o payload : mark \in Bytes, payload \in {<<>>, <<0, 80>>}}

OptionInit ==
    /\ cmsg = None
    /\ cwire \in OptionWires
    /\ cres = [phase |-> "new"]
    /\ TrackerIdle
    /\ SyncIdle
    /\ ServerIdle
    /\ CaptureIdle

\* Option::<u16>::decode(reader)
DecodeOpt ==
    /\ cres.phase = "new"
    /\ cres' = [phase |-> "decoded", result |-> DecodeOptionU16(cwire)]
    /\ UNCHANGED <<cmsg, cwire, trackerVars, syncVars, serverVars, captureVars>>

OptionNext == DecodeOpt

SpecOption == OptionInit /\ [][OptionNext]_vars

\* C32: presence byte 1 decodes the payload and yields a present value,
\* presence byte 0 yields absent, and any other presence byte fails.
C32_PresenceByteStrict ==
    cres.phase = "decoded" =>
        /\ (cwire[1] = 1 /\ Len(cwire) = 3) =>
              cres.result.ok /\ cres.result.val = Some(cwire[2] * 256 + cwire[3])
        /\ cwire[1] = 0 => cres.result.ok /\ cres.result.val = None
        /\ cwire[1] \notin {0, 1} => ~cres.result.ok

(***************************************************************************)
(* Truncated streams (src/src/coding.rs).  A Message is encoded, the reader *)
(* is given only the first n bytes of the encoding, and Message::decode    *)
(* runs on them.                                                           *)
(***************************************************************************)
\* A Name whose only text record holds one byte more than a u8 prefix counts.
LongText ==
    NameMsg(CHOOSE st \in CodecStates : TRUE,
            <<Name(<<97>>, Some([tag |-> "Text", texts |-> <<TextOf(MaxVec - 1)>>]))>>)

TruncateInit ==
    /\ cmsg \in CodecMessages \cup {LongText}
    /\ cwire = <<>>
    /\ cres = [phase |-> "new"]
    /\ TrackerIdle
    /\ SyncIdle
    /\ ServerIdle
    /\ CaptureIdle

\* The source ends after n bytes: read_exact sees only cwire[1..n].
Truncate(n) ==
    /\ cres.phase = "encoded"
    /\ n < Len(cwire)
    /\ cwire' = SubSeq(cwire, 1, n)
    /\ cres' = [phase |-> "cut", full |-> Len(cwire)]
    /\ UNCHANGED <<cmsg, trackerVars, syncVars, serverVars, captureVars>>

\* Message::decode on the shortened source.
DecodeCut ==
    /\ cres.phase = "cut"
    /\ cres' = [phase |-> "decoded cut", full |-> cres.full,
                result |-> DecodeMessage(cwire)]
    /\ UNCHANGED <<cmsg, cwire, trackerVars, syncVars, serverVars, captureVars>>

TruncateNext ==
    \/ Encode
    \/ \E n \in 0..(MaxWire + MaxVec) : Truncate(n)
    \/ DecodeCut

SpecTruncate == TruncateInit /\ [][TruncateNext]_vars

\* C33: decoding a proper prefix of the encoding of a Message returns an error.
C33_TruncatedFails ==
    cres.phase = "decoded cut" => ~cres.result.ok

(***************************************************************************)
(* impl From<IcmpCode> for Problem (src/src/observe.rs), variant by        *)
(* variant.  An IcmpCode is its variant name and the number of its         *)
(* sub-code in the order of the match arms (the raw word for Other).       *)
(***************************************************************************)
IcmpCode(variant, sub) == [variant |-> variant, sub |-> sub]

IcmpCodes ==
    {IcmpCode(v, 0) : v \in {"EchoReply", "Reserved", "SourceQuench", "EchoRequest",
                             "RouterAdvertisment", "RouterSolicication", "Timestamp",
                             "TimestampReply", "ExtendedEchoRequest"}}
    \cup {IcmpCode("DestinationUnreachable", un) : un \in 0..15}
    \cup {IcmpCode("Redirect", rd) : rd \in 0..3}
    \cup {IcmpCode("TimeExceeded", te) : te \in 0..1}
    \cup {IcmpCode("ParameterProblem", pp) : pp \in 0..2}
    \cup {IcmpCode("ExtendedEchoReply", eer) : eer \in 0..4}
    \cup {IcmpCode("Other", raw) : raw \in {6 * 256, 15 * 256 + 1, 255 * 256 + 255}}

ProblemFrom(value) ==
    CASE value.variant = "EchoReply" -> Problem(0, 0)
      [] value.variant = "Reserved" -> Problem(1, 0)
      [] value.variant = "DestinationUnreachable" -> Problem(3, value.sub)
      [] value.variant = "SourceQuench" -> Problem(4, 0)
      [] value.variant = "Redirect" -> Problem(5, value.sub)
      [] value.variant = "EchoRequest" -> Problem(8, 0)
      [] value.variant = "RouterAdvertisment" -> Problem(9, 0)
      [] value.variant = "RouterSolicication" -> Problem(10, 0)
      [] value.variant = "TimeExceeded" -> Problem(11, value.sub)
      [] value.variant = "ParameterProblem" -> Problem(12, value.sub)
      [] value.variant = "Timestamp" -> Problem(12, 0)
      [] value.variant = "TimestampReply" -> Problem(13, 0)
      [] value.variant = "ExtendedEchoRequest" -> Problem(42, 0)
      [] value.variant = "ExtendedEchoReply" -> Problem(43, value.sub)
      [] value.variant = "Other" -> Problem((value.sub \div 256) % 256, value.sub % 256)

\* Two classifications, each about to be converted.
ProblemInit ==
    /\ cmsg \in [a : IcmpCodes, b : IcmpCodes]
    /\ cwire = <<>>
    /\ cres = [phase |-> "new"]
    /\ TrackerIdle
    /\ SyncIdle
    /\ ServerIdle
    /\ CaptureIdle

\* Problem::from on both.
Convert ==
    /\ cres.phase = "new"
    /\ cres' = [phase |-> "converted", a |-> ProblemFrom(cmsg.a), b |-> ProblemFrom(cmsg.b)]
    /\ UNCHANGED <<cmsg, cwire, trackerVars, syncVars, serverVars, captureVars>>

ProblemNext == Convert

SpecProblem == ProblemInit /\ [][ProblemNext]_vars

\* C34: two ICMP classifications that convert to the same Problem are the same
\* classification.
C34_Lossless ==
    cres.phase = "converted" => (cres.a = cres.b => cmsg.a = cmsg.b)

(***************************************************************************)
(* A remote that stays down (src/src/sync.rs, client_thread): one worker,  *)
(* followed over MaxDown seconds and up to MaxStreak failed connects in a  *)
(* row.                                                                    *)
(***************************************************************************)
BackoffInit == build({1}) /\ TrackerIdle /\ CodecIdle /\ ServerIdle /\ CaptureIdle

BackoffNext ==
    \/ Elapse(MaxDown)
    \/ \E ok \in BOOLEAN : Connect(1, ok, MaxStreak)
    \/ \E ok \in BOOLEAN : Hello(1, ok)

SpecBackoff == BackoffInit /\ [][BackoffNext]_vars

\* Worker w makes a connect attempt in this step.
Attempted(w) == attempts'[w].n = attempts[w].n + 1

\* The instant the sleep of worker w ends.
SleepEnd(w) == start[w] + RETRY_BACKOFF_SECS

\* C35 as stated: every attempt made once the failure threshold has been
\* exceeded starts at least 10 seconds after the start of the attempt before it.
C35_OneAttemptPerWindow ==
    [][\A w \in Workers :
          (Attempted(w) /\ MustBackOff(tries[w]))
              => now >= attempts[w].latest + RETRY_BACKOFF_SECS]_vars

\* C35: once the failure threshold has been exceeded every attempt follows a
\* sleep of at most 10 seconds; the sleep before the first such attempt ends 10
\* seconds after the worker began connecting, the sleep before every later one
\* 10 seconds after the start of the attempt before it; the failure counter goes
\* down only to zero and only when the worker holds a connection.
C35_FixedWindow ==
    [][\A w \in Workers :
          /\ (Attempted(w) /\ MustBackOff(tries[w])) =>
                /\ now >= SleepEnd(w)
                /\ SleepEnd(w) - attempts[w].latest <= RETRY_BACKOFF_SECS
                /\ tries[w] = RETRY_BACKOFF_TRIES + 1 => start[w] <= attempts[w].first
                /\ tries[w] > RETRY_BACKOFF_TRIES + 1 =>
                      /\ start[w] = attempts[w].latest
                      /\ now >= attempts[w].latest + RETRY_BACKOFF_SECS
          /\ tries'[w] < tries[w] => (tries'[w] = 0 /\ wpc[w] = "hello")]_vars

\* Eight connects in a row have failed, the last two after a sleep.
C35_Witness ==
    /\ attempts[1].n = RETRY_BACKOFF_TRIES + 3
    /\ tries[1] = RETRY_BACKOFF_TRIES + 3

(***************************************************************************)
(* Connection::canonical (src/old_main.rs) and the order #[derive(Ord)]    *)
(* gives Connection: fields in declaration order, enum variants in         *)
(* declaration order (IpAddr: V4 before V6; Protocol: Tcp before Udp).     *)
(***************************************************************************)
\* [u8; N] and tuples of integers: lexicographic.
OctetsLt(a, b) ==
    \E i \in 1..Len(a) :
        /\ i <= Len(b)
        /\ a[i] < b[i]
        /\ \A j \in 1..(i - 1) : a[j] = b[j]

AddrLt(a, b) == a.v < b.v \/ (a.v = b.v /\ OctetsLt(a.octets, b.octets))

EndpointLt(a, b) == AddrLt(a.addr, b.addr) \/ (a.addr = b.addr /\ a.port < b.port)

ProtocolLt(a, b) == a = "Tcp" /\ b = "Udp"

ConnectionLt(a, b) ==
    \/ a.interface < b.interface
    \/ a.interface = b.interface /\ EndpointLt(a.src, b.src)
    \/ a.interface = b.interface /\ a.src = b.src /\ EndpointLt(a.dst, b.dst)
    \/ a.interface = b.interface /\ a.src = b.src /\ a.dst = b.dst
          /\ ProtocolLt(a.protocol, b.protocol)

\* Connection { src: self.dst, dst: self.src, ..self }
Swapped(c) == Connection(c.interface, c.dst, c.src, c.protocol)

canonical(self) ==
    LET alt == Swapped(self)
    IN  IF ConnectionLt(alt, self) THEN self ELSE alt

CanonicalInit ==
    /\ cmsg \in WireConnections
    /\ cwire = <<>>
    /\ cres = [phase |-> "new"]
    /\ TrackerIdle
    /\ SyncIdle
    /\ ServerIdle
    /\ CaptureIdle

Canonicalize ==
    /\ cres.phase = "new"
    /\ cres' = [phase |-> "canonical", result |-> canonical(cmsg)]
    /\ UNCHANGED <<cmsg, cwire, trackerVars, syncVars, serverVars, captureVars>>

CanonicalNext == Canonicalize

SpecCanonical == CanonicalInit /\ [][CanonicalNext]_vars

\* C36: canonical returns the smaller of the Connection and its swapped variant.
C36_KeepsSmaller ==
    cres.phase = "canonical" =>
        /\ cres.result \in {cmsg, Swapped(cmsg)}
        /\ ~ConnectionLt(cmsg, cres.result)
        /\ ~ConnectionLt(Swapped(cmsg), cres.result)

(***************************************************************************)
(* The Observer as an iterator (src/src/observe.rs, impl Iterator for      *)
(* Observer): capture threads that may end, and what next() returns.       *)
(***************************************************************************)
\* What a capture on interface idx may return: a segment of the flow, its FIN,
\* or an ARP frame, which the tracker drops.
ObservedFrame(idx, kind) ==
    CASE kind = "segment" -> CaptureFrame(idx, FALSE)
      [] kind = "fin" -> CaptureFrame(idx, TRUE)
      [] kind = "arp" -> Ingress(idx, "ETHERNET", "ARP", HostA, HostB, "TCP",
                                 Segment(20, 4000, 80, FALSE, FALSE, NoBody))

\* cap.next_packet() fails: the while-let ends and the thread's closure returns,
\* dropping its clone of the Sender.
ThreadExit(idx) ==
    /\ idx \in alive
    /\ ~held[idx].some
    /\ alive' = alive \ {idx}
    /\ UNCHANGED <<packets, held, captured, returned, trackerVars, codecVars, syncVars,
                   serverVars>>

\* The Senders held by capture threads only.
SendersOfThreads == Cardinality(alive)

\* The Senders of the channel that have not been dropped: one clone per running
\* capture thread and Observer.endpoint.
Senders == Cardinality(alive) + 1

\* One turn of the loop of Observer::next.  recv() returns the oldest Ingress, or
\* fails once the channel is empty and no Sender is left, or blocks; next()
\* returns the messages of the Ingress if there are any, None if recv() failed.
\* The caller stops at the first None.
ObserverPoll(r1, r2) ==
    /\ IF returned = <<>> THEN TRUE ELSE returned[Len(returned)].some
    /\ IF packets # <<>>
       THEN /\ Classified(Head(packets), r1, r2)
            /\ packets' = Tail(packets)
            /\ returned' = IF log'[Len(log')].out # <<>>
                           THEN Append(returned, Some(log'[Len(log')].out))
                           ELSE returned
       ELSE /\ Senders = 0
            /\ r1 = clock
            /\ r2 = clock
            /\ returned' = Append(returned, None)
            /\ UNCHANGED <<packets, trackerVars, codecVars, syncVars, serverVars>>
    /\ UNCHANGED <<held, captured, alive>>

Polls == \E r1 \in DatagramTimes, r2 \in DatagramTimes : ObserverPoll(r1, r2)

ObserverNext ==
    \/ \E idx \in Interfaces, kind \in {"segment", "fin", "arp"} :
          NextPacket(idx, ObservedFrame(idx, kind))
    \/ \E idx \in Interfaces : EpSend(idx)
    \/ \E idx \in Interfaces : ThreadExit(idx)
    \/ \E r1 \in DatagramTimes, r2 \in DatagramTimes : ObserverPoll(r1, r2)

SpecObserver == CaptureInit /\ [][ObserverNext]_vars

\* The messages of the packets that produced any, packet by packet.
BatchesOf(entries) ==
    LET full == SelectSeq(entries, LAMBDA e : e.out # <<>>)
    IN  [k \in 1..Len(full) |-> Some(full[k].out)]

\* C37: next() never returns None, and once every capture thread has exited and
\* the channel is empty it does not return at all; every batch it returns is
\* non-empty, and the batches are the messages of the packets that produced
\* any, one packet per batch.
C37_IteratorNeverEnds ==
    /\ \A k \in 1..Len(returned) : returned[k].some /\ returned[k].val # <<>>
    /\ returned = BatchesOf(log)
    /\ (alive = {} /\ packets = <<>>) => ~ENABLED Polls

\* Every capture thread has exited and the channel is drained; next() returned a
\* batch for one packet and went on after a packet that produced nothing.
C37_Witness ==
    /\ alive = {}
    /\ packets = <<>>
    /\ returned # <<>>
    /\ \E k \in 1..Len(log) : log[k].out = <<>>

(***************************************************************************)
(* How flows end (src/src/observe.rs, handle_tcp and handle_udp): the      *)
(* tracker is fed the TCP and the UDP frames together.                     *)
(***************************************************************************)
ClosingNext ==
    \E ingress \in TcpFrames \cup UdpFrames, r1 \in DatagramTimes, r2 \in DatagramTimes :
        Receive(ingress, r1, r2)

SpecClosing == TrackerInit /\ [][ClosingNext]_vars

\* The Closed values of the Ended messages emitted so far.
EmittedCloseds == {MsgAt(e).closed : e \in {x \in Emissions : MsgAt(x).tag = "Ended"}}

\* C38: no emitted Message and no table entry is an Ended with TimedOut; an
\* emitted Ended is Normally or Reset for a TCP flow and Connectionless for a
\* UDP flow, and the decoder accepts the byte each of them is encoded as.
C38_NeverTimedOut ==
    /\ \A e \in Emissions :
          MsgAt(e).tag = "Ended" =>
              /\ MsgAt(e).closed # "TimedOut"
              /\ MsgAt(e).state.connection.protocol = "Tcp"
                    => MsgAt(e).closed \in {"Normally", "Reset"}
              /\ MsgAt(e).state.connection.protocol = "Udp"
                    => MsgAt(e).closed = "Connectionless"
              /\ DecodeClosed(EncodeClosed(MsgAt(e).closed).bytes).ok
              /\ DecodeClosed(EncodeClosed(MsgAt(e).closed).bytes).val = MsgAt(e).closed
    /\ \A c \in DOMAIN states :
          states[c].tag = "Ended" => states[c].closed # "TimedOut"

\* A FIN, a RST and a UDP datagram have been classified: all three Closed values
\* have been emitted.
C38_Witness ==
    EmittedCloseds = {"Normally", "Reset", "Connectionless"}

====
